---- MODULE Spec2Model ----
(***************************************************************************)
(* A model of the Justack TypeScript SDK's real-time core:                 *)
(*   - WebSocketConnection (src/src/websocket/connection.ts): one channel  *)
(*     to a session endpoint, status, connect/send/close, reconnection;    *)
(*   - Session (src/unnamed/part_006, lines 167-510): the correlation of   *)
(*     sends with acknowledgments (pendingAcks, FIFO) and of questions     *)
(*     with responses (pendingQuestions, by permanent id).                 *)
(*                                                                         *)
(* Execution model.  JavaScript runs one callback at a time.  Every action *)
(* below is one callback run to completion (a channel event handler, a     *)
(* timer callback, a caller's synchronous call).  Promise continuations    *)
(* are microtasks: they are queued in `microtasks` and run before any      *)
(* other callback (every other action requires the queue to be empty).     *)
(* Time is abstracted: an armed timer may fire at any moment.              *)
(*                                                                         *)
(* Two specifications:                                                     *)
(*   ConnSpec  a WebSocketConnection used directly through its public API; *)
(*   Spec      a Session, which owns its WebSocketConnection privately.    *)
(***************************************************************************)
EXTENDS Integers, Sequences, FiniteSets, TLC

\* ------------------------------------------------------------------ bounds
\* Channels (calls of `new WebSocket`) created in one run.
MaxChan == 4
\* Channels created in one run of Spec (a Session on top of the connection).
MaxSessChan == 2
\* Session operations (log / ask calls) issued in one run.
MaxOps == 3
\* Permanent message ids the server hands out: Ids == 1..MaxIds.
MaxIds == 2
\* Frames a direct caller transmits in one run of ConnSpec.
MaxWire == 2
\* Descriptors in the list of one ask call.
MaxInputs == 2
\* options.maxReconnectAttempts (the program's default is 5, a small value
\* keeps the runs short).
maxReconnectAttempts == 2

\* ------------------------------------------------------- program constants
SESSION_EXPIRED_CLOSE_CODE == 4001
\* An ordinary close code (normal closure).
NORMAL_CLOSE_CODE == 1000

ChanIds == 1..MaxChan
Ops == 1..MaxOps
Ids == 1..MaxIds
CloseCodes == {NORMAL_CLOSE_CODE, SESSION_EXPIRED_CLOSE_CODE}

VARIABLES
    \* --- WebSocketConnection fields (connection.ts:46-56)
    status,             \* _status: "disconnected" | "connecting" | "connected" | "error"
    isConnected,        \* _connected
    ws,                 \* this.ws: the channel held, 0 for null
    connectPromise,     \* this.connectPromise: a promise id, 0 for null
    reconnectAttempts,  \* this.reconnectAttempts
    reconnectTimeout,   \* this.reconnectTimeout: "null" | "armed" | "fired"
    manualClose,        \* this.manualClose
    autoReconnect,      \* options.autoReconnect
    \* --- objects the connection creates
    chan,               \* chan[k]: the k-th WebSocket: "none" before it exists, then its
                        \* readyState "connecting" | "open" | "closing" | "closed", with
                        \* "ready" for OPEN once the server's handshake frame was delivered
    handlers,           \* handlers[k]: the k-th WebSocket still has its on* handlers
    promise,            \* promise[k]: state of the promise made by the k-th new connect()
    nChan,              \* number of connect() calls that went past the two early returns
    orphanTimers,       \* pending reconnect timers this.reconnectTimeout no longer refers to
    wire,               \* frames handed to WebSocket.send so far
    \* --- a direct caller of the connection (ConnSpec)
    held,               \* promise ids returned to callers of connect()
    sendOutcome,        \* how the caller's last send() ended: "none" | "sent" | "NotConnected"
    \* --- Session fields (part_006:218-234, 249)
    sessConn,           \* this.connection is not null
    hasRecipients,      \* this.recipients.length > 0
    ackCounter,         \* this.ackCounter
    pendingAcks,        \* this.pendingAcks, in insertion order: <<[key, op], ...>>
    pendingQuestions,   \* this.pendingQuestions: id -> the op waiting, 0 for no entry
    \* --- the log / ask calls in flight
    nStarted,           \* calls issued so far; call number op is Ops's op
    kind,               \* kind[op]: "log" | "ask"
    pc,                 \* pc[op]: where the call is suspended
    awaiting,           \* awaiting[op]: the connect promise the call awaits, 0 for none
    connection,         \* connection[op]: the call's local `connection`, what
                        \* ensureConnected returned to it: "none" before, "null",
                        \* "connection" for the Session's object, "closed" once
                        \* Session.close() has closed and dropped that object
    msgId,              \* msgId[op]: messageId, the id its ack carried, 0 before
    timer,              \* timer[op]: the ask's deadline timer
    outcome,            \* outcome[op]: how the call's promise settled, "none" before
    value,              \* value[op]: the value an ask resolved with
    ackSettles,         \* ackSettles[op]: resolve/reject calls on its PendingAck promise
    qSettles,           \* qSettles[op]: resolve/reject calls on its PendingQuestion promise
    microtasks,         \* promise continuations queued, in order
    usedIds,            \* permanent ids the server has assigned (sent in an ack)
    \* --- ResponseFromInputs (types/inputs.ts:54-81)
    inputList,          \* T: the descriptor list of an ask call
    response,           \* ResponseFromInputs<T>, NotInferred before it is derived
    \* --- the delay of scheduleReconnect (connection.ts:206-211)
    retryAttempt,       \* this.reconnectAttempts when the delay is computed
    jitter,             \* the value Math.random() returns
    delay,              \* the delay handed to setTimeout, NotComputed (0) before
    component,          \* reconnectDelay * 2^attempts as the delay expression
                        \* computes it, 0 before
    \* --- on / off / emit (connection.ts:276-325), for one event name
    listeners,          \* the Set of callbacks of the event, in insertion order
    invoked,            \* callbacks the last emit called, in call order
    logged,             \* callbacks whose exception the last emit logged
    escaped,            \* an exception left the last emit
    \* --- paginate and collect (pagination.ts:13-43)
    fetcher,            \* the fetcher handed to paginate: cursor argument -> response
    cursor,             \* paginate's local `cursor`
    fetched,            \* the arguments of the fetcher calls made so far, in order
    pageResp,           \* paginate's local `response`
    itemIdx,            \* position of the for..of loop in response.data
    yielded,            \* the items the generator has yielded, in order
    items,              \* collect's local `items`
    pagePc,             \* where the generator is: "fetch" about to call the fetcher,
                        \* "await" waiting for the page, "items" in the for..of
                        \* loop, "yield" suspended at `yield item`, "done"
    consumer,           \* who iterates the generator: "collect" or a "forAwait"
                        \* loop of the caller's
    collected,          \* what collect returned, NotCollected before
    \* --- the statusChange events of setStatus (connection.ts:77-83)
    statusEvents        \* payloads of the statusChange events emitted, in order

connVars == <<status, isConnected, ws, connectPromise, reconnectAttempts,
              reconnectTimeout, manualClose, autoReconnect, chan, handlers,
              promise, nChan, orphanTimers>>
userVars == <<held, sendOutcome>>
sessVars == <<sessConn, hasRecipients, ackCounter, pendingAcks, pendingQuestions,
              nStarted, kind, pc, awaiting, connection, msgId, timer, outcome,
              value, ackSettles, qSettles, microtasks, usedIds>>
pageVars == <<fetcher, cursor, fetched, pageResp, itemIdx, yielded, items, pagePc,
              consumer, collected>>
libVars == <<inputList, response, retryAttempt, jitter, delay, component, listeners, invoked,
             logged, escaped, pageVars, statusEvents>>
vars == <<connVars, wire, userVars, sessVars, libVars>>

\* ------------------------------------------------------ WebSocketConnection

\* setStatus (connection.ts:77-83), as a function of the current
\* [status, connected] pair.
\* A setStatus that emits statusChange on every call.  C39 tells it apart
\* from setStatus.
setStatus_alwaysEmits(cur, s) ==
    [status |-> s, connected |-> (s = "connected"), emits |-> Append(cur.emits, s)]

setStatus(cur, s) ==
    IF cur.status # s
    THEN [status |-> s, connected |-> (s = "connected"), emits |-> Append(cur.emits, s)]
    ELSE cur

Cur == [status |-> status, connected |-> isConnected, emits |-> <<>>]

\* What connect() returns (connection.ts:89-96, 172): the promise in progress,
\* 0 for an already resolved promise, or the promise it is about to create.
connectReturns ==
    IF connectPromise # 0 THEN connectPromise
    ELSE IF isConnected THEN 0
    ELSE nChan + 1

\* connect() opens a new channel only past the two early returns.
connectOpens == connectPromise = 0 /\ ~isConnected

\* The fields connect() may write.
connectVars == <<status, isConnected, ws, connectPromise, chan, handlers, promise, nChan>>

\* connect() (connection.ts:89-173).  `throws` says whether `new WebSocket`
\* throws.  The executor runs inside `new Promise`, before the assignment to
\* this.connectPromise completes: in the catch branch the field is set to null
\* by the executor and then to the rejected promise by the assignment.
connect(throws) ==
    IF ~connectOpens
    THEN UNCHANGED connectVars
    ELSE
      LET k == nChan + 1
          s1 == setStatus(Cur, "connecting")
          s2 == IF throws THEN setStatus(s1, "error") ELSE s1
      IN  /\ nChan' = k
          /\ status' = s2.status
          /\ isConnected' = s2.connected
          /\ connectPromise' = k
          /\ promise' = [promise EXCEPT ![k] = IF throws THEN "rejected" ELSE "pending"]
          /\ chan' = [chan EXCEPT ![k] = IF throws THEN "none" ELSE "connecting"]
          /\ handlers' = [handlers EXCEPT ![k] = ~throws]
          /\ ws' = IF throws THEN ws ELSE k

\* scheduleReconnect without its guard on the attempt cap.
scheduleReconnect_noCap(attempts, timeout, orphans) ==
    [timeout |-> "armed",
     orphans |-> IF timeout = "armed" THEN orphans + 1 ELSE orphans]

\* scheduleReconnect (connection.ts:201-219): the timer state after the call.
\* A new timer overwrites the reference to one still pending.
scheduleReconnect(attempts, timeout, orphans) ==
    IF attempts >= maxReconnectAttempts
    THEN [timeout |-> timeout, orphans |-> orphans]
    ELSE [timeout |-> "armed",
          orphans |-> IF timeout = "armed" THEN orphans + 1 ELSE orphans]

\* ws.onclose (connection.ts:142-161) of channel k, closing with any code.
onclose(k) ==
    LET s == setStatus(Cur, "disconnected")
        t == IF ~manualClose /\ autoReconnect
             THEN scheduleReconnect(reconnectAttempts, reconnectTimeout, orphanTimers)
             ELSE [timeout |-> reconnectTimeout, orphans |-> orphanTimers]
    IN  /\ handlers[k]
        /\ chan[k] \in {"connecting", "open", "ready", "closing"}
        /\ chan' = [chan EXCEPT ![k] = "closed"]
        /\ ws' = 0
        /\ status' = s.status
        /\ isConnected' = s.connected
        /\ connectPromise' = 0
        /\ promise' = IF connectPromise # 0 /\ promise[k] = "pending"
                      THEN [promise EXCEPT ![k] = "rejected"]
                      ELSE promise
        /\ reconnectTimeout' = t.timeout
        /\ orphanTimers' = t.orphans
        /\ UNCHANGED <<reconnectAttempts, manualClose, autoReconnect, handlers, nChan>>

\* ws.onerror (connection.ts:163-169) of channel k.  The error event is
\* dispatched for a channel that has failed: its readyState has left
\* CONNECTING and OPEN by then, and its close event follows.
onerror(k) ==
    LET s == setStatus(Cur, "error")
    IN  /\ handlers[k]
        /\ chan[k] \in {"connecting", "open", "ready", "closing"}
        /\ chan' = [chan EXCEPT ![k] = "closing"]
        /\ status' = s.status
        /\ isConnected' = s.connected
        /\ UNCHANGED <<ws, connectPromise, reconnectAttempts, reconnectTimeout,
                       manualClose, autoReconnect, handlers, promise, nChan,
                       orphanTimers>>

\* ws.onopen (connection.ts:121-123): the transport opens; the handler is empty.
onopen(k) ==
    /\ chan[k] = "connecting"
    /\ chan' = [chan EXCEPT ![k] = "open"]
    /\ UNCHANGED <<status, isConnected, ws, connectPromise, reconnectAttempts,
                   reconnectTimeout, manualClose, autoReconnect, handlers, promise,
                   nChan, orphanTimers>>

\* The peer starts the closing handshake: readyState leaves OPEN before the
\* close event is dispatched (what send reads at connection.ts:227).
peerClosing(k) ==
    /\ chan[k] \in {"open", "ready"}
    /\ handlers[k]
    /\ chan' = [chan EXCEPT ![k] = "closing"]
    /\ UNCHANGED <<status, isConnected, ws, connectPromise, reconnectAttempts,
                   reconnectTimeout, manualClose, autoReconnect, handlers, promise,
                   nChan, orphanTimers>>

\* The close event of a channel whose handlers close() has detached
\* (connection.ts:256-259): no callback runs.
detachedClose(k) ==
    /\ ~handlers[k]
    /\ chan[k] = "closing"
    /\ chan' = [chan EXCEPT ![k] = "closed"]
    /\ UNCHANGED <<status, isConnected, ws, connectPromise, reconnectAttempts,
                   reconnectTimeout, manualClose, autoReconnect, handlers, promise,
                   nChan, orphanTimers>>

\* A frame can be delivered to the handlers of channel k.
canReceive(k) == handlers[k] /\ chan[k] \in {"open", "ready"}

\* ws.onmessage with {type:"connected"} (connection.ts:125-136, 177-181):
\* handleMessage, then cleanup() and resolve() of the promise of channel k.
\* The server sends the handshake frame once per channel.
onmessageConnected(k) ==
    LET s == setStatus(Cur, "connected")
    IN  /\ handlers[k]
        /\ chan[k] = "open"
        /\ chan' = [chan EXCEPT ![k] = "ready"]
        /\ status' = s.status
        /\ isConnected' = s.connected
        /\ reconnectAttempts' = 0
        /\ connectPromise' = 0
        /\ promise' = IF promise[k] = "pending"
                      THEN [promise EXCEPT ![k] = "resolved"]
                      ELSE promise
        /\ UNCHANGED <<ws, reconnectTimeout, manualClose, autoReconnect,
                       handlers, nChan, orphanTimers>>

\* ws.onmessage with any other frame, or one JSON.parse rejects
\* (connection.ts:125-140, 183-197): the connection's own state is untouched.
onmessageOther(k) ==
    /\ canReceive(k)
    /\ UNCHANGED connVars

\* Whether send() passes its guard (connection.ts:227).
canTransmit == ws # 0 /\ chan[ws] \in {"open", "ready"}

\* close() (connection.ts:244-269).
close ==
    LET s == setStatus(Cur, "disconnected")
    IN  /\ manualClose' = TRUE
        /\ reconnectTimeout' = "null"
        /\ ws' = 0
        /\ handlers' = IF ws # 0 THEN [handlers EXCEPT ![ws] = FALSE] ELSE handlers
        /\ chan' = IF ws # 0 /\ chan[ws] \in {"connecting", "open", "ready"}
                   THEN [chan EXCEPT ![ws] = "closing"]
                   ELSE chan
        /\ connectPromise' = 0
        /\ status' = s.status
        /\ isConnected' = s.connected
        /\ UNCHANGED <<reconnectAttempts, autoReconnect, promise, nChan, orphanTimers>>

\* A pending reconnect timer exists.
timerPending == reconnectTimeout = "armed" \/ orphanTimers > 0

\* The reconnect timer's callback (connection.ts:213-218): count the attempt,
\* then connect(), whose rejection is swallowed.  `orphan` says which timer
\* fires: the one this.reconnectTimeout refers to, or an overwritten one.
reconnectTimerFires(orphan, throws) ==
    /\ IF orphan THEN orphanTimers > 0 ELSE reconnectTimeout = "armed"
    /\ reconnectAttempts' = reconnectAttempts + 1
    /\ reconnectTimeout' = IF orphan THEN reconnectTimeout ELSE "fired"
    /\ orphanTimers' = IF orphan THEN orphanTimers - 1 ELSE orphanTimers
    /\ connect(throws)
    /\ UNCHANGED <<manualClose, autoReconnect>>

\* new WebSocketConnection (connection.ts:46-61).
ConnInit ==
    /\ status = "disconnected"
    /\ isConnected = FALSE
    /\ ws = 0
    /\ connectPromise = 0
    /\ reconnectAttempts = 0
    /\ reconnectTimeout = "null"
    /\ manualClose = FALSE
    /\ chan = [k \in ChanIds |-> "none"]
    /\ handlers = [k \in ChanIds |-> FALSE]
    /\ promise = [k \in ChanIds |-> "none"]
    /\ nChan = 0
    /\ orphanTimers = 0
    /\ wire = 0

\* ------------------------------------------------------------- JSON.parse
\* Texts are sequences of one-character strings.  JavaScript values are
\* records [t, a, m]: t the type, a the text of a scalar, m the members of an
\* object ([k |-> key, v |-> value]) or the elements of an array (k empty).

Scalar(t, a) == [t |-> t, a |-> a, m |-> <<>>]
Undefined == Scalar("undefined", <<>>)
JsString(text) == Scalar("string", text)
Compound(t, m) == [t |-> t, a |-> <<>>, m |-> m]

ParseFail == [ok |-> FALSE, val |-> Undefined, next |-> 0]
ParseOk(v, n) == [ok |-> TRUE, val |-> v, next |-> n]

Digits == {"0", "1", "2", "3", "4", "5", "6", "7", "8", "9"}

IsLit(s, i, lit) ==
    /\ i + Len(lit) - 1 <= Len(s)
    /\ SubSeq(s, i, i + Len(lit) - 1) = lit

\* The index of the first quote at or after i, 0 when there is none.
RECURSIVE closingQuote(_, _)
closingQuote(s, i) ==
    IF i > Len(s) THEN 0
    ELSE IF s[i] = "\"" THEN i
    ELSE closingQuote(s, i + 1)

\* The first index at or after i that holds no digit.
RECURSIVE digitsEnd(_, _)
digitsEnd(s, i) ==
    IF i <= Len(s) /\ s[i] \in Digits THEN digitsEnd(s, i + 1) ELSE i

parseString(s, i) ==
    IF i <= Len(s) /\ s[i] = "\""
    THEN LET j == closingQuote(s, i + 1)
         IN  IF j = 0 THEN ParseFail
             ELSE ParseOk(JsString(SubSeq(s, i + 1, j - 1)), j + 1)
    ELSE ParseFail

\* A number: digits, with no leading zero before another digit.
parseNumber(s, i) ==
    LET j == digitsEnd(s, i)
    IN  IF j = i \/ (s[i] = "0" /\ j > i + 1) THEN ParseFail
        ELSE ParseOk(Scalar("number", SubSeq(s, i, j - 1)), j)

\* The JSON grammar without white space, escapes, signs, fractions or
\* exponents: true, false, null, digits, "text", [v,...], {"k":v,...}.
RECURSIVE parseValue(_, _)
RECURSIVE parseElements(_, _, _)
RECURSIVE parseMembers(_, _, _)

parseValue(s, i) ==
    IF i > Len(s) THEN ParseFail
    ELSE IF IsLit(s, i, <<"t", "r", "u", "e">>)
         THEN ParseOk(Scalar("boolean", <<"t", "r", "u", "e">>), i + 4)
    ELSE IF IsLit(s, i, <<"f", "a", "l", "s", "e">>)
         THEN ParseOk(Scalar("boolean", <<"f", "a", "l", "s", "e">>), i + 5)
    ELSE IF IsLit(s, i, <<"n", "u", "l", "l">>)
         THEN ParseOk(Scalar("null", <<>>), i + 4)
    ELSE IF s[i] = "\"" THEN parseString(s, i)
    ELSE IF s[i] \in Digits THEN parseNumber(s, i)
    ELSE IF s[i] = "["
         THEN IF i + 1 <= Len(s) /\ s[i + 1] = "]"
              THEN ParseOk(Compound("array", <<>>), i + 2)
              ELSE parseElements(s, i + 1, <<>>)
    ELSE IF s[i] = "{"
         THEN IF i + 1 <= Len(s) /\ s[i + 1] = "}"
              THEN ParseOk(Compound("object", <<>>), i + 2)
              ELSE parseMembers(s, i + 1, <<>>)
    ELSE ParseFail

\* The elements of an array from i on, after those in acc.
parseElements(s, i, acc) ==
    LET e == parseValue(s, i)
    IN  IF ~e.ok \/ e.next > Len(s) THEN ParseFail
        ELSE LET more == Append(acc, [k |-> <<>>, v |-> e.val])
             IN  IF s[e.next] = "]" THEN ParseOk(Compound("array", more), e.next + 1)
                 ELSE IF s[e.next] = "," THEN parseElements(s, e.next + 1, more)
                 ELSE ParseFail

\* The members of an object from i on, after those in acc.
parseMembers(s, i, acc) ==
    LET key == parseString(s, i)
    IN  IF ~key.ok \/ key.next > Len(s) \/ s[key.next] # ":" THEN ParseFail
        ELSE LET e == parseValue(s, key.next + 1)
             IN  IF ~e.ok \/ e.next > Len(s) THEN ParseFail
                 ELSE LET more == Append(acc, [k |-> key.val.a, v |-> e.val])
                      IN  IF s[e.next] = "}"
                          THEN ParseOk(Compound("object", more), e.next + 1)
                          ELSE IF s[e.next] = ","
                          THEN parseMembers(s, e.next + 1, more)
                          ELSE ParseFail

\* JSON.parse(text): ok = FALSE stands for the SyntaxError it throws.
JsonParse(text) ==
    LET r == parseValue(text, 1)
    IN  IF r.ok /\ r.next = Len(text) + 1
        THEN [ok |-> TRUE, val |-> r.val]
        ELSE [ok |-> FALSE, val |-> Undefined]

\* Response payloads a recipient's client may send.
P_OBJECT == <<"{", "\"", "a", "\"", ":", "t", "r", "u", "e", "}">>
P_TEXT == <<"y", "e", "s">>
P_QUOTED == <<"\"", "y", "e", "s", "\"">>
P_TRUNCATED == <<"{", "\"", "a", "\"", ":">>
P_EMPTY == <<>>
Payloads == {P_OBJECT, P_TEXT, P_QUOTED, P_TRUNCATED, P_EMPTY}

\* The `inputs` field of a wire message: null, a JSON text, a malformed text.
I_NULL == <<>>
I_LIST == <<"[", "{", "\"", "n", "\"", ":", "1", "}", "]">>
I_BAD == <<"[", "{">>
InputTexts == {I_NULL, I_LIST, I_BAD}

\* ------------------------------------------------------------------ Session

\* new Session (part_006:218-234, 259-267).
SessInit ==
    /\ sessConn = FALSE
    /\ ackCounter = 0
    /\ pendingAcks = <<>>
    /\ pendingQuestions = [i \in Ids |-> 0]
    /\ nStarted = 0
    /\ kind = [op \in Ops |-> "none"]
    /\ pc = [op \in Ops |-> "idle"]
    /\ awaiting = [op \in Ops |-> 0]
    /\ connection = [op \in Ops |-> "none"]
    /\ msgId = [op \in Ops |-> 0]
    /\ timer = [op \in Ops |-> "none"]
    /\ outcome = [op \in Ops |-> "none"]
    /\ value = [op \in Ops |-> Undefined]
    /\ ackSettles = [op \in Ops |-> 0]
    /\ qSettles = [op \in Ops |-> 0]
    /\ microtasks = <<>>
    /\ usedIds = {}

\* The calls that hold an entry of pendingQuestions / of pendingAcks.
questionOps == {pendingQuestions[i] : i \in Ids} \ {0}
ackOps == {pendingAcks[i].op : i \in DOMAIN pendingAcks}

\* The calls suspended on connect promise k, in the order they subscribed
\* (calls are numbered in the order they are issued).
waiters(k) == {op \in Ops : pc[op] = "connecting" /\ awaiting[op] = k}

RECURSIVE ascending(_)
ascending(S) ==
    IF S = {} THEN <<>>
    ELSE LET m == CHOOSE x \in S : \A y \in S : x <= y
         IN  <<m>> \o ascending(S \ {m})

\* createWebSocketConnection (connection.ts:21-38) followed by connect() on
\* the new object (part_006:273-278).  The connection variables hold the
\* Session's current object; the object it replaces was closed by
\* Session.close(), and within MaxSessChan channels it has no timer pending
\* and no channel that still has handlers.
newConnectionConnect(throws) ==
    LET k == nChan + 1
    IN  /\ nChan' = k
        /\ status' = IF throws THEN "error" ELSE "connecting"
        /\ isConnected' = FALSE
        /\ ws' = IF throws THEN 0 ELSE k
        /\ connectPromise' = k
        /\ promise' = [promise EXCEPT ![k] = IF throws THEN "rejected" ELSE "pending"]
        /\ chan' = [chan EXCEPT ![k] = IF throws THEN "none" ELSE "connecting"]
        /\ handlers' = [handlers EXCEPT ![k] = ~throws]
        /\ reconnectAttempts' = 0
        /\ reconnectTimeout' = "null"
        /\ manualClose' = FALSE
        /\ autoReconnect' = TRUE
        /\ orphanTimers' = 0

\* ensureConnected up to its await (part_006:272-278): the connect promise the
\* call is left with is r.
ensureConnected(throws) ==
    /\ sessConn' = TRUE
    /\ IF sessConn
       THEN /\ connect(throws)
            /\ UNCHANGED <<reconnectAttempts, reconnectTimeout, manualClose,
                           autoReconnect, orphanTimers>>
       ELSE newConnectionConnect(throws)

\* An ask that checks its recipients only after it has connected.
rejectsUnaddressed_never(kd) == FALSE

\* The first statement of ask() (part_006:410-414): without recipients the
\* call throws BadRequestError.  log() has no such test.
rejectsUnaddressed(kd) == kd = "ask" /\ ~hasRecipients

\* log() and ask() up to their first await (part_006:376-377, 406-416).  The
\* caller may call while continuations of earlier calls are still queued: its
\* synchronous code runs before them.
call(kd, throws) ==
    LET op == nStarted + 1
        r == IF sessConn THEN connectReturns ELSE nChan + 1
    IN  /\ nStarted < MaxOps
        /\ nStarted' = op
        /\ kind' = [kind EXCEPT ![op] = kd]
        /\ IF rejectsUnaddressed(kd)
           THEN /\ pc' = [pc EXCEPT ![op] = "done"]
                /\ outcome' = [outcome EXCEPT ![op] = "Validation"]
                /\ UNCHANGED <<connVars, sessConn, awaiting, microtasks>>
           ELSE /\ ensureConnected(throws)
                /\ IF r = 0 \/ (r # 0 /\ promise'[r] = "resolved")
                   THEN /\ pc' = [pc EXCEPT ![op] = "connected"]
                        /\ microtasks' = Append(microtasks, op)
                        /\ UNCHANGED <<awaiting, outcome>>
                   ELSE IF promise'[r] = "pending"
                   THEN /\ pc' = [pc EXCEPT ![op] = "connecting"]
                        /\ awaiting' = [awaiting EXCEPT ![op] = r]
                        /\ UNCHANGED <<microtasks, outcome>>
                   ELSE /\ pc' = [pc EXCEPT ![op] = "done"]
                        /\ outcome' = [outcome EXCEPT ![op] = "ConnectFailed"]
                        /\ UNCHANGED <<awaiting, microtasks>>
        /\ UNCHANGED <<wire, userVars, libVars, hasRecipients, ackCounter, pendingAcks,
                       pendingQuestions, connection, msgId, timer, value, ackSettles,
                       qSettles, usedIds>>

\* The continuation of ensureConnected once the connect promise has resolved
\* (part_006:278-279): it reads this.connection, null after a Session.close(),
\* and returns it, which queues the continuation of log / ask behind the
\* continuations and the caller's microtasks already queued.
ensureConnectedReturns(op) ==
    /\ connection' = [connection EXCEPT
                        ![op] = IF sessConn THEN "connection" ELSE "null"]
    /\ pc' = [pc EXCEPT ![op] = "ensured"]
    /\ microtasks' = Append(Tail(microtasks), op)
    /\ UNCHANGED <<wire, ackCounter, pendingAcks, pendingQuestions, timer, outcome,
                   ackSettles>>

\* sendAndWaitForAck (part_006:352-362) with connection.send
\* (connection.ts:226-237), called by the continuation of log / ask with the
\* object ensureConnected returned (part_006:377-378, 416-420).  The entry is
\* stored before send is called; a send that throws rejects the promise and
\* leaves the entry.  On null the call throws a TypeError; an object that
\* Session.close() has closed has no socket (connection.ts:252-255) and its
\* send throws NotConnected.  The local is not read again.
sendAndWaitForAck(op) ==
    /\ ackCounter' = ackCounter + 1
    /\ pendingAcks' = Append(pendingAcks, [key |-> ackCounter + 1, op |-> op])
    /\ connection' = [connection EXCEPT ![op] = "none"]
    /\ IF connection[op] = "connection" /\ canTransmit
       THEN /\ wire' = wire + 1
            /\ pc' = [pc EXCEPT ![op] = "awaitAck"]
            /\ UNCHANGED <<outcome, ackSettles>>
       ELSE /\ wire' = wire
            /\ pc' = [pc EXCEPT ![op] = "done"]
            /\ outcome' = [outcome EXCEPT
                             ![op] = IF connection[op] = "null"
                                     THEN "TypeError" ELSE "NotConnected"]
            /\ ackSettles' = [ackSettles EXCEPT ![op] = @ + 1]
    /\ UNCHANGED <<pendingQuestions, timer>>

\* A continuation that treats a log as a question: after the ack it stores a
\* PendingQuestion and starts a deadline timer.  C30 tells it apart from
\* afterAck.
afterAck_logAwaitsResponse(op) ==
    /\ pc' = [pc EXCEPT ![op] = "awaitResp"]
    /\ timer' = [timer EXCEPT ![op] = "armed"]
    /\ pendingQuestions' = [pendingQuestions EXCEPT ![msgId[op]] = op]
    /\ UNCHANGED outcome
    /\ UNCHANGED <<ackCounter, pendingAcks, wire, ackSettles, connection>>

\* The rest of log() and ask() once the ack promise has resolved
\* (part_006:380-386, 420-440).
afterAck(op) ==
    /\ IF kind[op] = "log"
       THEN /\ pc' = [pc EXCEPT ![op] = "done"]
            /\ outcome' = [outcome EXCEPT ![op] = "resolved"]
            /\ UNCHANGED <<pendingQuestions, timer>>
       ELSE /\ pc' = [pc EXCEPT ![op] = "awaitResp"]
            /\ timer' = [timer EXCEPT ![op] = "armed"]
            /\ pendingQuestions' = [pendingQuestions EXCEPT ![msgId[op]] = op]
            /\ UNCHANGED outcome
    /\ UNCHANGED <<ackCounter, pendingAcks, wire, ackSettles, connection>>

\* A messageAck listener that resolves every pending ack with the id of one
\* ack.  C37 tells it apart from messageAck.
messageAck_all(id) ==
    LET waiting == {op \in ackOps : pc[op] = "awaitAck"}
    IN  /\ pendingAcks' = <<>>
        /\ ackSettles' = [op \in Ops |->
                            IF op \in ackOps THEN ackSettles[op] + 1 ELSE ackSettles[op]]
        /\ pc' = [op \in Ops |-> IF op \in waiting THEN "acked" ELSE pc[op]]
        /\ msgId' = [op \in Ops |-> IF op \in waiting THEN id ELSE msgId[op]]
        /\ microtasks' = microtasks \o ascending(waiting)

\* The messageAck listener (part_006:289-299): the state of the Session after
\* an ack carrying id.
messageAck(id) ==
    IF pendingAcks = <<>>
    THEN UNCHANGED <<pendingAcks, ackSettles, pc, msgId, microtasks>>
    ELSE LET op == pendingAcks[1].op
         IN  /\ pendingAcks' = Tail(pendingAcks)
             /\ ackSettles' = [ackSettles EXCEPT ![op] = @ + 1]
             /\ IF pc[op] = "awaitAck"
                THEN /\ pc' = [pc EXCEPT ![op] = "acked"]
                     /\ msgId' = [msgId EXCEPT ![op] = id]
                     /\ microtasks' = Append(microtasks, op)
                ELSE UNCHANGED <<pc, msgId, microtasks>>

\* transformMessage (part_003:69-83) throws when `inputs` is a non-empty text
\* JSON.parse rejects.
transformThrows(inputs) == inputs # <<>> /\ ~JsonParse(inputs).ok

\* transformThrows on the `inputs` texts of the model, computed once.
transformThrowsOn == [inputs \in InputTexts |-> transformThrows(inputs)]

\* A decoder without the raw-text fallback: it hands over whatever the parse
\* left, `undefined` when the payload is not JSON.  C10 tells it apart from
\* decodeResponse.
decodeResponse_noFallback(text) == JsonParse(text).val

\* What handleResponse hands to resolve (part_006:340-346).
decodeResponse(text) ==
    IF JsonParse(text).ok THEN JsonParse(text).val ELSE JsString(text)

\* decodeResponse on the payloads of the model, computed once.
decodeResponseOf == [text \in Payloads |-> decodeResponse(text)]

\* A handleResponse that ignores the id of the update and settles the pending
\* question with the lowest id.  C29 tells it apart from handleResponse.
handleResponse_anyEntry(id, text) ==
    LET live == {i \in Ids : pendingQuestions[i] # 0}
    IN  IF live = {}
        THEN UNCHANGED <<pendingQuestions, timer, qSettles, pc, outcome, value>>
        ELSE LET first == CHOOSE i \in live : \A j \in live : i <= j
                 op == pendingQuestions[first]
             IN  /\ timer' = [timer EXCEPT ![op] = "cancelled"]
                 /\ pendingQuestions' = [pendingQuestions EXCEPT ![first] = 0]
                 /\ qSettles' = [qSettles EXCEPT ![op] = @ + 1]
                 /\ pc' = [pc EXCEPT ![op] = "done"]
                 /\ outcome' = [outcome EXCEPT ![op] = "resolved"]
                 /\ value' = [value EXCEPT ![op] = decodeResponseOf[text]]

\* A handleResponse that, finding no entry for the id, answers an ask that
\* still waits for its acknowledgment.  C26 tells it apart from handleResponse.
handleResponse_beforeAck(id, text) ==
    LET op == pendingQuestions[id]
        early == {o \in Ops : kind[o] = "ask" /\ pc[o] = "awaitAck"}
    IN  IF op = 0 /\ early = {}
        THEN UNCHANGED <<pendingQuestions, timer, qSettles, pc, outcome, value>>
        ELSE LET o == IF op # 0 THEN op ELSE CHOOSE e \in early : TRUE
             IN  /\ timer' = [timer EXCEPT ![o] = "cancelled"]
                 /\ pendingQuestions' = [pendingQuestions EXCEPT ![id] = 0]
                 /\ qSettles' = [qSettles EXCEPT ![o] = @ + 1]
                 /\ pc' = [pc EXCEPT ![o] = "done"]
                 /\ outcome' = [outcome EXCEPT ![o] = "resolved"]
                 /\ value' = [value EXCEPT ![o] = decodeResponseOf[text]]

\* handleResponse without its clearTimeout: the deadline timer stays armed
\* after the caller is resolved.  C2 tells it apart from handleResponse.
handleResponse_keepsTimer(id, text) ==
    LET op == pendingQuestions[id]
    IN  IF op = 0
        THEN UNCHANGED <<pendingQuestions, timer, qSettles, pc, outcome, value>>
        ELSE /\ timer' = timer
             /\ pendingQuestions' = [pendingQuestions EXCEPT ![id] = 0]
             /\ qSettles' = [qSettles EXCEPT ![op] = @ + 1]
             /\ pc' = [pc EXCEPT ![op] = "done"]
             /\ outcome' = [outcome EXCEPT ![op] = "resolved"]
             /\ value' = [value EXCEPT ![op] = decodeResponseOf[text]]

\* handleResponse (part_006:332-347) for a message with this id and response.
handleResponse(id, text) ==
    LET op == pendingQuestions[id]
    IN  IF op = 0
        THEN UNCHANGED <<pendingQuestions, timer, qSettles, pc, outcome, value>>
        ELSE /\ timer' = [timer EXCEPT ![op] = "cancelled"]
             /\ pendingQuestions' = [pendingQuestions EXCEPT ![id] = 0]
             /\ qSettles' = [qSettles EXCEPT ![op] = @ + 1]
             /\ pc' = [pc EXCEPT ![op] = "done"]
             /\ outcome' = [outcome EXCEPT ![op] = "resolved"]
             /\ value' = [value EXCEPT ![op] = decodeResponseOf[text]]

\* The messageUpdated listener (part_006:303-308).  An exception of
\* transformMessage is caught by emit (connection.ts:314-322).
messageUpdated(id, mtype, hasResponse, text, inputs) ==
    IF ~transformThrowsOn[inputs] /\ mtype = "ask" /\ hasResponse
    THEN handleResponse(id, text)
    ELSE UNCHANGED <<pendingQuestions, timer, qSettles, pc, outcome, value>>

\* The two loops without their clearTimeout: the callers are rejected and the
\* maps cleared, the deadline timers stay armed.  C27 tells it apart from
\* rejectAll.
rejectAll_keepsTimers(err) ==
    [pc |-> [op \in Ops |->
                IF op \in questionOps \cup ackOps /\ outcome[op] = "none"
                THEN "done" ELSE pc[op]],
     outcome |-> [op \in Ops |->
                IF op \in questionOps \cup ackOps /\ outcome[op] = "none"
                THEN err ELSE outcome[op]],
     timer |-> timer,
     qSettles |-> [op \in Ops |->
                IF op \in questionOps THEN qSettles[op] + 1 ELSE qSettles[op]],
     ackSettles |-> [op \in Ops |->
                IF op \in ackOps THEN ackSettles[op] + 1 ELSE ackSettles[op]],
     pendingQuestions |-> [i \in Ids |-> 0],
     pendingAcks |-> <<>>]

\* The two loops that reject every entry of both maps and clear them
\* (part_006:313-324 and 455-466): the Session's state after them.
rejectAll(err) ==
    [pc |-> [op \in Ops |->
                IF op \in questionOps \cup ackOps /\ outcome[op] = "none"
                THEN "done" ELSE pc[op]],
     outcome |-> [op \in Ops |->
                IF op \in questionOps \cup ackOps /\ outcome[op] = "none"
                THEN err ELSE outcome[op]],
     timer |-> [op \in Ops |->
                IF op \in questionOps THEN "cancelled" ELSE timer[op]],
     qSettles |-> [op \in Ops |->
                IF op \in questionOps THEN qSettles[op] + 1 ELSE qSettles[op]],
     ackSettles |-> [op \in Ops |->
                IF op \in ackOps THEN ackSettles[op] + 1 ELSE ackSettles[op]],
     pendingQuestions |-> [i \in Ids |-> 0],
     pendingAcks |-> <<>>]

\* The Session's state when nothing is rejected.
keepAll ==
    [pc |-> pc, outcome |-> outcome, timer |-> timer, qSettles |-> qSettles,
     ackSettles |-> ackSettles, pendingQuestions |-> pendingQuestions,
     pendingAcks |-> pendingAcks]

\* A disconnected listener that stops the deadline timers on a transient
\* close, for a reconnection to start them again.  C28 tells it apart from
\* disconnected.
disconnected_pausesTimers(code) ==
    IF code = SESSION_EXPIRED_CLOSE_CODE
    THEN rejectAll("SessionExpired")
    ELSE [keepAll EXCEPT
            !.timer = [op \in Ops |->
                         IF timer[op] = "armed" THEN "cancelled" ELSE timer[op]]]

\* A disconnected listener that treats every close as an invalidation.  C13
\* tells it apart from disconnected.
disconnected_anyCode(code) == rejectAll("SessionExpired")

\* A disconnected listener that rejects the callers but forgets to cancel the
\* deadline timers.  C4 tells it apart from disconnected.
disconnected_keepsTimers(code) ==
    IF code = SESSION_EXPIRED_CLOSE_CODE
    THEN [rejectAll("SessionExpired") EXCEPT !.timer = timer]
    ELSE keepAll

\* The disconnected listener (part_006:311-326).
disconnected(code) ==
    IF code = SESSION_EXPIRED_CLOSE_CODE THEN rejectAll("SessionExpired") ELSE keepAll

\* A deadline callback that rejects the caller but leaves the PendingQuestion
\* entry in the map.  C3 tells it apart from deadline.
deadline_keepsEntry(op) ==
    /\ timer[op] = "armed"
    /\ timer' = [timer EXCEPT ![op] = "fired"]
    /\ pendingQuestions' = pendingQuestions
    /\ qSettles' = [qSettles EXCEPT ![op] = @ + 1]
    /\ pc' = [pc EXCEPT ![op] = "done"]
    /\ outcome' = [outcome EXCEPT
                     ![op] = IF outcome[op] = "none" THEN "Timeout" ELSE @]

\* The deadline timer's callback of an ask (part_006:430-433).
deadline(op) ==
    /\ timer[op] = "armed"
    /\ timer' = [timer EXCEPT ![op] = "fired"]
    /\ pendingQuestions' = [pendingQuestions EXCEPT ![msgId[op]] = 0]
    /\ qSettles' = [qSettles EXCEPT ![op] = @ + 1]
    /\ pc' = [pc EXCEPT ![op] = "done"]
    /\ outcome' = [outcome EXCEPT
                     ![op] = IF outcome[op] = "none" THEN "Timeout" ELSE @]

\* ------------------------------------------------------- ResponseFromInputs

\* The descriptors of the model.  `multiple` is the literal type of the
\* property ("absent" when the descriptor has none); `extras` says whether the
\* optional attributes of the kind are present (label, placeholder, required,
\* multiline, maxLength, defaultValue, options given as objects).
InputKinds == {"text", "confirm", "select"}
FieldNames == {"a", "b"}
Descriptors ==
    [type : InputKinds, name : FieldNames, multiple : {"absent", "true", "false"},
     extras : BOOLEAN]

\* Descriptor lists of at most MaxInputs entries.
InputLists == UNION {[1..n -> Descriptors] : n \in 0..MaxInputs}

\* A mapping that never reads `multiple`: every select answers with a string.
\* C11 tells it apart from ResponseTypeFromInput.
ResponseTypeFromInput_ignoresMultiple(d) ==
    IF d.type = "confirm" THEN {"boolean"} ELSE {"string"}

\* ResponseTypeFromInput<T> (types/inputs.ts:54-62), a type as the set of the
\* members of the union (the empty set is `never`).  A descriptor extends
\* ConfirmInput, SelectInput or TextInput by its `type` literal, whatever
\* optional attributes it carries.
ResponseTypeFromInput(d) ==
    IF d.type = "confirm"
    THEN {"boolean"}
    ELSE IF d.type = "select"
    THEN IF d.multiple = "true" THEN {"string[]"} ELSE {"string"}
    ELSE IF d.type = "text"
    THEN {"string"}
    ELSE {}

\* The derived shape keyed by the position of each descriptor.  C24 tells it
\* apart from ResponseFromInputs.
ResponseFromInputs_positional(T) ==
    [i \in DOMAIN T |-> ResponseTypeFromInput(T[i])]

\* ResponseFromInputs<T> (types/inputs.ts:79-81): one property per name of the
\* list; descriptors sharing a name contribute the union of their types.
ResponseFromInputs(T) ==
    [n \in {T[i].name : i \in DOMAIN T} |->
        UNION {ResponseTypeFromInput(T[i]) : i \in {j \in DOMAIN T : T[j].name = n}}]

NotInferred == [inferred |-> FALSE, shape |-> <<>>]

\* The descriptor list every ask of Spec passes as options.inputs
\* (part_006:406-409): one confirm field named "a".
askDescriptors ==
    <<[type |-> "confirm", name |-> "a", multiple |-> "absent", extras |-> FALSE]>>

\* The state of each library part before it is used.
TypeIdle == inputList = <<>> /\ response = NotInferred
NotComputed == {}
BackoffIdle ==
    retryAttempt = 0 /\ jitter = NotComputed /\ delay = NotComputed /\ component = 0
EmitIdle == listeners = <<>> /\ invoked = <<>> /\ logged = {} /\ escaped = FALSE

\* JSON null, and the JavaScript tests the pagination loop applies to a
\* cursor: truthiness (pagination.ts:26) and `??` (pagination.ts:25).
JsNull == Scalar("null", <<>>)
truthy(v) == v.t \notin {"null", "undefined"} /\ ~(v.t = "string" /\ v.a = <<>>)
nullish(v, w) == IF v.t \in {"null", "undefined"} THEN w ELSE v

\* Before collect returns.
NotCollected == [returned |-> FALSE, value |-> <<>>]

\* A fetcher that answers every call with an empty last page.
NoPages == [data |-> <<>>, nextCursor |-> JsNull]

PageIdle ==
    /\ fetcher = <<>> /\ cursor = Undefined /\ fetched = <<>> /\ pageResp = NoPages
    /\ itemIdx = 0 /\ yielded = <<>> /\ items = <<>> /\ pagePc = "fetch"
    /\ consumer = "collect" /\ collected = NotCollected
StatusIdle == statusEvents = <<>>
LibInit == TypeIdle /\ BackoffIdle /\ EmitIdle /\ PageIdle /\ StatusIdle

\* ----------------------------------------------------------- ws.onmessage

\* Frame texts a server or a faulty peer may send: the handshake, a message
\* of the conversation, an error report, a frame cut short, a text that is
\* no JSON, and JSON null.
TypeKey == <<"t", "y", "p", "e">>
ConnectedType == <<"c", "o", "n", "n", "e", "c", "t", "e", "d">>
\* The other cases of handleMessage's switch (connection.ts:183-197):
\* message, message_updated, message_ack and error.
OtherTypes ==
    { <<"m", "e", "s", "s", "a", "g", "e">>,
      <<"m", "e", "s", "s", "a", "g", "e", "_", "u", "p", "d", "a", "t", "e", "d">>,
      <<"m", "e", "s", "s", "a", "g", "e", "_", "a", "c", "k">>,
      <<"e", "r", "r", "o", "r">> }
FrameTexts ==
    { <<"{", "\"", "t", "y", "p", "e", "\"", ":", "\"", "c", "o", "n", "n", "e",
            "c", "t", "e", "d", "\"", "}">>,
      <<"{", "\"", "t", "y", "p", "e", "\"", ":", "\"", "m", "e", "s", "s", "a",
            "g", "e", "\"", ",", "\"", "d", "a", "t", "a", "\"", ":", "1", "}">>,
      <<"{", "\"", "t", "y", "p", "e", "\"", ":", "\"", "e", "r", "r", "o", "r",
            "\"", "}">>,
      <<"{", "\"", "t", "y", "p", "e", "\"", ":", "\"", "c", "o", "n", "n">>,
      <<"h", "e", "l", "l", "o">>,
      <<"n", "u", "l", "l">> }

\* The value of the last member named key of an object, Undefined without one.
RECURSIVE member(_, _, _)
member(m, key, i) ==
    IF i = 0 THEN Undefined
    ELSE IF m[i].k = key THEN m[i].v
    ELSE member(m, key, i - 1)

\* What ws.onmessage reads as message.type (connection.ts:127-130, 176):
\* "SyntaxError" when JSON.parse throws, "TypeError" when the property of
\* null is read, the value of the property otherwise.
messageType(text) ==
    LET p == JsonParse(text)
    IN  IF ~p.ok THEN Scalar("SyntaxError", <<>>)
        ELSE IF p.val.t = "null" THEN Scalar("TypeError", <<>>)
        ELSE IF p.val.t # "object" THEN Undefined
        ELSE member(p.val.m, TypeKey, Len(p.val.m))

\* The event of a frame that every exception of the handler emits as an
\* error event.
frameEvent_errorOnThrow(text) ==
    LET ty == messageType(text)
    IN  IF ty.t \in {"SyntaxError", "TypeError"} THEN "error"
        ELSE IF ty.t # "string" THEN "none"
        ELSE IF ty.a = ConnectedType THEN "connected"
        ELSE IF ty.a \in OtherTypes THEN "other"
        ELSE "none"

\* The event handleMessage emits for a frame (connection.ts:175-199), "none"
\* when the catch of ws.onmessage drops the frame (connection.ts:137-139) or
\* no case of the switch matches; "other" stands for message, messageUpdated,
\* messageAck and error.
frameEvent(text) ==
    LET ty == messageType(text)
    IN  IF ty.t # "string" THEN "none"
        ELSE IF ty.a = ConnectedType THEN "connected"
        ELSE IF ty.a \in OtherTypes THEN "other"
        ELSE "none"

\* The event of each frame text, and the texts JSON.parse rejects.
frameEventOf == [text \in FrameTexts |-> frameEvent(text)]
MalformedTexts == {text \in FrameTexts : ~JsonParse(text).ok}

\* ws.onmessage of channel k with the frame text (connection.ts:125-140).
onmessage(k, text) ==
    IF frameEventOf[text] = "connected"
    THEN onmessageConnected(k)
    ELSE onmessageOther(k)

\* ------------------------------------------- ConnSpec: the connection alone

\* A caller calls connect() and keeps the promise.
CallConnect ==
    \E throws \in BOOLEAN :
        /\ connectOpens => nChan < MaxChan
        /\ connect(throws)
        /\ held' = IF connectReturns # 0 THEN held \cup {connectReturns} ELSE held
        /\ UNCHANGED <<reconnectAttempts, reconnectTimeout, manualClose,
                       autoReconnect, orphanTimers, wire, sendOutcome, sessVars, libVars>>

\* A caller calls send(payload) (connection.ts:226-237).
CallSend ==
    /\ wire < MaxWire
    /\ IF canTransmit
       THEN wire' = wire + 1 /\ sendOutcome' = "sent"
       ELSE wire' = wire /\ sendOutcome' = "NotConnected"
    /\ UNCHANGED <<connVars, held, sessVars, libVars>>

\* A caller calls close().
CallClose ==
    /\ close
    /\ UNCHANGED <<wire, held, sendOutcome, sessVars, libVars>>

ChanOpen ==
    \E k \in ChanIds : onopen(k) /\ UNCHANGED <<wire, userVars, libVars, sessVars>>

ChanPeerClosing ==
    \E k \in ChanIds : peerClosing(k) /\ UNCHANGED <<wire, userVars, libVars, sessVars>>

ChanClose ==
    \E k \in ChanIds : onclose(k) /\ UNCHANGED <<wire, userVars, libVars, sessVars>>

ChanDetachedClose ==
    \E k \in ChanIds : detachedClose(k) /\ UNCHANGED <<wire, userVars, libVars, sessVars>>

ChanError ==
    \E k \in ChanIds : onerror(k) /\ UNCHANGED <<wire, userVars, libVars, sessVars>>

ChanConnected ==
    \E k \in ChanIds : onmessageConnected(k) /\ UNCHANGED <<wire, userVars, libVars, sessVars>>

ChanOther ==
    \E k \in ChanIds : onmessageOther(k) /\ UNCHANGED <<wire, userVars, libVars, sessVars>>

\* A frame arrives as text on channel k.
ChanMessage ==
    \E k \in ChanIds, text \in FrameTexts :
        onmessage(k, text) /\ UNCHANGED <<wire, userVars, libVars, sessVars>>

ReconnectTimer ==
    \E orphan \in BOOLEAN, throws \in BOOLEAN :
        /\ connectOpens => nChan < MaxChan
        /\ reconnectTimerFires(orphan, throws)
        /\ UNCHANGED <<wire, userVars, libVars, sessVars>>

ConnSpecInit ==
    /\ ConnInit
    /\ autoReconnect \in BOOLEAN
    /\ held = {}
    /\ sendOutcome = "none"
    /\ SessInit
    /\ hasRecipients = TRUE
    /\ LibInit

ConnNext ==
    \/ CallConnect
    \/ CallSend
    \/ CallClose
    \/ ChanOpen
    \/ ChanPeerClosing
    \/ ChanClose
    \/ ChanDetachedClose
    \/ ChanError
    \/ ChanConnected
    \/ ChanOther
    \/ ChanMessage
    \/ ReconnectTimer

ConnSpec == ConnSpecInit /\ [][ConnNext]_vars

\* ------------------------------------------------- Spec: Session and server

\* A caller calls session.log(...) or session.ask(...).
Call ==
    \E kd \in {"log", "ask"}, throws \in BOOLEAN :
        nChan < MaxSessChan /\ call(kd, throws)

\* The next promise continuation runs.
Microtask ==
    /\ microtasks # <<>>
    /\ LET op == Head(microtasks)
       IN  IF pc[op] = "connected"
           THEN ensureConnectedReturns(op)
           ELSE /\ microtasks' = Tail(microtasks)
                /\ IF pc[op] = "ensured"
                   THEN sendAndWaitForAck(op)
                   ELSE afterAck(op)
    /\ UNCHANGED <<connVars, userVars, libVars, sessConn, hasRecipients, nStarted, kind,
                   awaiting, msgId, value, qSettles, usedIds>>

\* The server's {type:"connected"} arrives on channel k: the connection's
\* handler, then the continuations of the calls awaiting that promise.
FrameConnected ==
    \E k \in ChanIds :
        LET w == IF promise[k] = "pending" THEN waiters(k) ELSE {}
        IN  /\ microtasks = <<>>
            /\ onmessageConnected(k)
            /\ pc' = [op \in Ops |-> IF op \in w THEN "connected" ELSE pc[op]]
            /\ awaiting' = [op \in Ops |-> IF op \in w THEN 0 ELSE awaiting[op]]
            /\ microtasks' = ascending(w)
            /\ UNCHANGED <<wire, userVars, libVars, sessConn, hasRecipients, ackCounter,
                           pendingAcks, pendingQuestions, nStarted, kind, connection,
                           msgId, timer, outcome, value, ackSettles, qSettles, usedIds>>

\* {type:"message_ack", data:{id}} arrives on channel k.  The server assigns
\* every permanent id once.
frameAck(k, id) ==
    /\ microtasks = <<>>
    /\ id \notin usedIds
    /\ onmessageOther(k)
    /\ usedIds' = usedIds \cup {id}
    /\ messageAck(id)
    /\ UNCHANGED <<wire, userVars, libVars, sessConn, hasRecipients, ackCounter,
                   pendingQuestions, nStarted, kind, awaiting, connection, timer, outcome,
                   value, qSettles>>

FrameAck ==
    \E k \in ChanIds, id \in Ids : frameAck(k, id)

\* {type:"message_updated", data} arrives on channel k.
frameUpdated(k, id, mtype, hasResponse, text, inputs) ==
    /\ microtasks = <<>>
    /\ onmessageOther(k)
    /\ messageUpdated(id, mtype, hasResponse, text, inputs)
    /\ UNCHANGED <<wire, userVars, libVars, sessConn, hasRecipients, ackCounter,
                   pendingAcks, nStarted, kind, awaiting, connection, msgId, ackSettles,
                   microtasks, usedIds>>

\* The message_updated frames the server sends: a message whose
\* response_content is null (hasResponse is FALSE, and the text is not read),
\* an answered ask, and an answered message of type log.
UpdatedFrames ==
    [mtype : {"log", "ask"}, hasResponse : {FALSE}, text : {<<>>}, inputs : InputTexts]
    \cup [mtype : {"ask"}, hasResponse : {TRUE}, text : Payloads, inputs : InputTexts]
    \cup [mtype : {"log"}, hasResponse : {TRUE}, text : {P_TEXT}, inputs : {I_NULL}]

FrameUpdated ==
    \E k \in ChanIds, id \in Ids, f \in UpdatedFrames :
        frameUpdated(k, id, f.mtype, f.hasResponse, f.text, f.inputs)

\* {type:"message"}, {type:"error"} or a malformed frame arrives on channel k:
\* the Session listens to none of them.
FrameOther ==
    \E k \in ChanIds :
        /\ microtasks = <<>>
        /\ onmessageOther(k)
        /\ UNCHANGED <<wire, userVars, libVars, sessVars>>

\* Channel k closes with a code: the disconnected listener, then the
\* rejection of the calls awaiting the connect promise of channel k.
closeEvent(k, code) ==
    LET d == disconnected(code)
        w == IF connectPromise # 0 /\ promise[k] = "pending" THEN waiters(k) ELSE {}
    IN  /\ microtasks = <<>>
        /\ onclose(k)
        /\ pc' = [op \in Ops |-> IF op \in w THEN "done" ELSE d.pc[op]]
        /\ outcome' = [op \in Ops |->
                         IF op \in w THEN "ConnectFailed" ELSE d.outcome[op]]
        /\ awaiting' = [op \in Ops |-> IF op \in w THEN 0 ELSE awaiting[op]]
        /\ timer' = d.timer
        /\ qSettles' = d.qSettles
        /\ ackSettles' = d.ackSettles
        /\ pendingQuestions' = d.pendingQuestions
        /\ pendingAcks' = d.pendingAcks
        /\ UNCHANGED <<wire, userVars, libVars, sessConn, hasRecipients, ackCounter,
                       nStarted, kind, connection, msgId, value, microtasks, usedIds>>

EvClose ==
    \E k \in ChanIds, code \in CloseCodes : closeEvent(k, code)

EvOpen ==
    \E k \in ChanIds :
        microtasks = <<>> /\ onopen(k) /\ UNCHANGED <<wire, userVars, libVars, sessVars>>

EvPeerClosing ==
    \E k \in ChanIds :
        microtasks = <<>> /\ peerClosing(k) /\ UNCHANGED <<wire, userVars, libVars, sessVars>>

EvDetachedClose ==
    \E k \in ChanIds :
        microtasks = <<>> /\ detachedClose(k) /\ UNCHANGED <<wire, userVars, libVars, sessVars>>

EvError ==
    \E k \in ChanIds :
        microtasks = <<>> /\ onerror(k) /\ UNCHANGED <<wire, userVars, libVars, sessVars>>

\* A reconnect timer of the connection fires.
EvReconnectTimer ==
    \E orphan \in BOOLEAN, throws \in BOOLEAN :
        /\ microtasks = <<>>
        /\ nChan < MaxSessChan
        /\ reconnectTimerFires(orphan, throws)
        /\ UNCHANGED <<wire, userVars, libVars, sessVars>>

\* The deadline of an ask elapses.
EvDeadline ==
    \E op \in Ops :
        /\ microtasks = <<>>
        /\ deadline(op)
        /\ UNCHANGED <<connVars, wire, userVars, libVars, sessConn, hasRecipients,
                       ackCounter, pendingAcks, nStarted, kind, awaiting, connection, msgId,
                       value, ackSettles, microtasks, usedIds>>

\* Session.close() (part_006:454-473).
sessionClose ==
    LET d == rejectAll("Closed")
    IN  /\ pc' = d.pc
        /\ outcome' = d.outcome
        /\ timer' = d.timer
        /\ qSettles' = d.qSettles
        /\ ackSettles' = d.ackSettles
        /\ pendingQuestions' = d.pendingQuestions
        /\ pendingAcks' = d.pendingAcks
        /\ sessConn' = FALSE
        /\ connection' = [op \in Ops |->
                            IF connection[op] = "connection" THEN "closed"
                            ELSE connection[op]]
        /\ IF sessConn THEN close ELSE UNCHANGED connVars

\* A caller calls session.close(), possibly in the same synchronous block as
\* a log or ask whose continuation is still queued.
CallSessionClose ==
    /\ sessionClose
    /\ UNCHANGED <<wire, userVars, libVars, hasRecipients, ackCounter, nStarted, kind,
                   awaiting, msgId, value, microtasks, usedIds>>

Init ==
    /\ ConnInit
    /\ autoReconnect = TRUE
    /\ held = {}
    /\ sendOutcome = "none"
    /\ SessInit
    /\ hasRecipients \in BOOLEAN
    /\ LibInit

Next ==
    \/ Call
    \/ Microtask
    \/ FrameConnected
    \/ FrameAck
    \/ FrameUpdated
    \/ FrameOther
    \/ EvOpen
    \/ EvPeerClosing
    \/ EvClose
    \/ EvDetachedClose
    \/ EvError
    \/ EvReconnectTimer
    \/ EvDeadline
    \/ CallSessionClose

Spec == Init /\ [][Next]_vars

\* ------------------------------------- TypeSpec: the derived response shape

\* The connection and the Session, never used.
CoreIdle ==
    /\ ConnInit
    /\ autoReconnect = TRUE
    /\ held = {}
    /\ sendOutcome = "none"
    /\ SessInit
    /\ hasRecipients = TRUE

TypeSpecInit ==
    /\ CoreIdle
    /\ BackoffIdle
    /\ EmitIdle
    /\ PageIdle
    /\ StatusIdle
    /\ inputList \in InputLists
    /\ response = NotInferred

\* The compiler derives ResponseFromInputs<typeof inputs>.
Infer ==
    /\ ~response.inferred
    /\ response' = [inferred |-> TRUE, shape |-> ResponseFromInputs(inputList)]
    /\ UNCHANGED <<connVars, wire, userVars, sessVars, inputList, retryAttempt, jitter,
                   delay, component, listeners, invoked, logged, escaped,
                   pageVars, statusEvents>>

TypeNext == Infer

TypeSpec == TypeSpecInit /\ [][TypeNext]_vars

\* -------------------------------------- BackoffSpec: the reconnect delay

\* options.reconnectDelay as createWebSocketConnection sets it
\* (connection.ts:33), the bound of Math.random() * 1000 (connection.ts:209)
\* and the largest delay (connection.ts:210), in milliseconds.
reconnectDelay == 1000
JITTER_BOUND == 1000
MAX_DELAY == 30000

\* The attempt counters the delay is computed for: the values of
\* this.reconnectAttempts that pass the guard of connection.ts:202 when
\* options.maxReconnectAttempts is above MaxRetryAttempt (with the default 5
\* the counters 0..4 do).
MaxRetryAttempt == 6

\* The delay is computed in IEEE 754 doubles (connection.ts:207-211), whose
\* significand has 53 bits.  A number is held exactly, as the set of the
\* exponents e of the powers 2^e that add up to it.
Significand == 53

\* Math.pow(2, n) for a natural n.
RECURSIVE pow2(_)
pow2(n) == IF n = 0 THEN 1 ELSE 2 * pow2(n - 1)

\* The whole number n below 2^IntBits, and the number below 1 whose binary
\* places are S (place k stands for 2^-k).
IntBits == 17
FixedOf(n) == {e \in 0..(IntBits - 1) : (n \div pow2(e)) % 2 = 1}
Fraction(S) == {0 - k : k \in S}

\* The exact sum of two numbers: a carry enters position i from a position
\* below where both have a bit, through positions where either has one.
plus(a, b) ==
    LET all == a \cup b
        lo == CHOOSE e \in all : \A f \in all : e <= f
        hi == CHOOSE e \in all : \A f \in all : f <= e
        carry(i) == \E j \in lo..(i - 1) :
                        j \in a \cap b /\ \A k \in (j + 1)..(i - 1) : k \in all
    IN  IF all = {} THEN {}
        ELSE {i \in lo..(hi + 1) : ((i \in a) # (i \in b)) # carry(i)}

\* The exact product of a number and a natural.
RECURSIVE times(_, _)
times(a, n) ==
    IF n = 0 THEN {}
    ELSE LET twice == {e + 1 : e \in times(a, n \div 2)}
         IN  IF n % 2 = 1 THEN plus(twice, a) ELSE twice

\* a <= b: the highest position where they differ is a bit of b.
lessEq(a, b) == a = b \/ \E e \in b \ a : \A f \in a \ b : f < e

\* The double nearest to a number, ties to the even significand: the result
\* of a double operation whose exact value is a.
roundToDouble(a) ==
    LET top == CHOOSE e \in a : \A f \in a : f <= e
        last == top - Significand + 1
        kept == {e \in a : e >= last}
        up == /\ last - 1 \in a
              /\ last \in a \/ \E e \in a : e < last - 1
    IN  IF a = {} THEN a
        ELSE IF up THEN plus(kept, {last}) ELSE kept

\* Math.min.
min(a, b) == IF lessEq(a, b) THEN a ELSE b

\* Values of Math.random(): doubles in [0, 1).  0, 1/2, 3/4, 2^-10, 2^-53,
\* 1/2 + 2^-53, the two largest doubles below 1, and the doubles nearest to
\* 1/3, 0.1, 0.6, 0.001, 0.0005, 0.37, 0.999 and 0.9995.
Randoms ==
    { Fraction({}), Fraction({1}), Fraction({1, 2}), Fraction({10}), Fraction({53}),
      Fraction({1, 53}), Fraction(1..52), Fraction(1..53),
      Fraction({k \in 2..54 : k % 2 = 0}),
      Fraction({k \in 4..53 : k % 4 \in {0, 1}} \cup {55}),
      Fraction({k \in 4..53 : k % 4 \in {0, 1}} \cup {1}),
      Fraction({10, 16, 17, 21, 24, 27, 28, 30, 31, 32, 34, 37, 39, 40, 41, 42, 46,
                47, 49, 51, 54, 55, 56, 57, 58, 59, 60}),
      Fraction({11, 17, 18, 22, 25, 28, 29, 31, 32, 33, 35, 38, 40, 41, 42, 43, 47,
                48, 50, 52, 55, 56, 57, 58, 59, 60, 61}),
      Fraction({2, 4, 5, 6, 7, 9, 11, 12, 13, 18, 20, 24, 25, 26, 27, 29, 31, 32,
                33, 38, 40, 44, 45, 46, 47, 49, 51, 52, 53}),
      Fraction({1, 2, 3, 4, 5, 6, 7, 8, 9, 11, 12, 13, 14, 15, 18, 19, 20, 22, 23,
                25, 26, 29, 33, 35, 36, 38, 43, 44, 45, 48, 50, 52, 53}),
      Fraction({1, 2, 3, 4, 5, 6, 7, 8, 9, 10, 12, 13, 14, 15, 16, 19, 20, 21, 23,
                24, 26, 27, 30, 34, 36, 37, 39, 44, 45, 46, 49, 51, 52}) }

\* The deterministic component of the delay (connection.ts:208), a whole
\* number of milliseconds.
backoff(attempts) == reconnectDelay * pow2(attempts)

\* The delay without its upper limit.
reconnectDelayFor_noCap(attempts, random) ==
    roundToDouble(plus(FixedOf(backoff(attempts)),
                       roundToDouble(times(random, JITTER_BOUND))))

\* The delay scheduleReconnect computes (connection.ts:207-211) when
\* Math.random() returns `random`: the product and the sum are each rounded
\* to a double.
reconnectDelayFor(attempts, random) ==
    min(roundToDouble(plus(FixedOf(backoff(attempts)),
                           roundToDouble(times(random, JITTER_BOUND)))),
        FixedOf(MAX_DELAY))

BackoffSpecInit ==
    /\ CoreIdle
    /\ TypeIdle
    /\ EmitIdle
    /\ PageIdle
    /\ StatusIdle
    /\ retryAttempt \in 0..MaxRetryAttempt
    /\ jitter \in Randoms
    /\ delay = NotComputed
    /\ component = 0

\* The rest of the program does not take part.
BackoffFrame ==
    UNCHANGED <<connVars, wire, userVars, sessVars, inputList, response, listeners,
                invoked, logged, escaped, pageVars, statusEvents>>

\* The delay expression of scheduleReconnect (connection.ts:207-211) is
\* evaluated for the counter and the value of Math.random() of the state.
ComputeDelay ==
    /\ delay = NotComputed
    /\ component' = backoff(retryAttempt)
    /\ delay' = reconnectDelayFor(retryAttempt, jitter)
    /\ UNCHANGED <<retryAttempt, jitter>>
    /\ BackoffFrame

BackoffNext == ComputeDelay

BackoffSpec == BackoffSpecInit /\ [][BackoffNext]_vars

\* ------------------------------------------ EmitSpec: on, off and emit

\* The callbacks that may be subscribed at once to the event name.
MaxListeners == 3

\* A callback: a function object (id) and what it does when it is called:
\* return, throw, or unsubscribe the callback `target` (itself included) by
\* off() or by the function on() returned.
CallbackIds == 1..MaxListeners
Callbacks ==
    [id : CallbackIds, does : {"return", "throw"}, target : {0}]
        \cup [id : CallbackIds, does : {"off"}, target : CallbackIds]

\* The place of an entry deleted from a Set that is being iterated.
Deleted == [id |-> 0, does |-> "return", target |-> 0]

\* on(event, callback) (connection.ts:276-293): Set.add keeps the insertion
\* order and ignores a callback that is already in the Set.
on(reg, c) ==
    IF \E i \in DOMAIN reg : reg[i] = c THEN reg ELSE Append(reg, c)

\* off(event, callback) (connection.ts:298-305) and the function on()
\* returns (connection.ts:288-292): Set.delete.
off(reg, c) == SelectSeq(reg, LAMBDA x : x # c)

\* Set.delete of the callback with function object id while the Set is being
\* iterated: the entry is emptied in place.
deleteDuring(slots, id) ==
    [j \in DOMAIN slots |-> IF slots[j].id = id THEN Deleted ELSE slots[j]]

\* The loop of emit (connection.ts:312-323) from entry i on: a for-of over the
\* live Set visits, in insertion order, the entries that are still in the Set
\* when it reaches them; each call is wrapped in try/catch, the catch logs.
RECURSIVE dispatch(_, _, _, _)
dispatch(slots, i, inv, log) ==
    IF i > Len(slots)
    THEN [listeners |-> SelectSeq(slots, LAMBDA x : x # Deleted),
          invoked |-> inv, logged |-> log, escaped |-> FALSE]
    ELSE IF slots[i] = Deleted
    THEN dispatch(slots, i + 1, inv, log)
    ELSE LET c == slots[i]
         IN  dispatch(IF c.does = "off" THEN deleteDuring(slots, c.target) ELSE slots,
                      i + 1,
                      Append(inv, c),
                      IF c.does = "throw" THEN log \cup {c} ELSE log)

\* emit(event, ...args) (connection.ts:307-325).
emit(reg) == dispatch(reg, 1, <<>>, {})

EmitSpecInit ==
    /\ CoreIdle
    /\ TypeIdle
    /\ BackoffIdle
    /\ PageIdle
    /\ StatusIdle
    /\ EmitIdle

\* A caller subscribes a callback; two function objects differ in their id.
On ==
    \E c \in Callbacks :
        /\ \A i \in DOMAIN listeners : listeners[i].id = c.id => listeners[i] = c
        /\ listeners' = on(listeners, c)
        /\ UNCHANGED <<connVars, wire, userVars, sessVars, inputList, response,
                       retryAttempt, jitter, delay, component, invoked, logged, escaped,
                       pageVars, statusEvents>>

\* A caller unsubscribes a callback it has subscribed.
Off ==
    \E i \in DOMAIN listeners :
        /\ listeners' = off(listeners, listeners[i])
        /\ UNCHANGED <<connVars, wire, userVars, sessVars, inputList, response,
                       retryAttempt, jitter, delay, component, invoked, logged, escaped,
                       pageVars, statusEvents>>

\* A channel callback emits the event.
Emit ==
    LET r == emit(listeners)
    IN  /\ listeners' = r.listeners
        /\ invoked' = r.invoked
        /\ logged' = r.logged
        /\ escaped' = r.escaped
        /\ UNCHANGED <<connVars, wire, userVars, sessVars, inputList, response,
                       retryAttempt, jitter, delay, component, pageVars,
                       statusEvents>>

EmitNext ==
    \/ On
    \/ Off
    \/ Emit

EmitSpec == EmitSpecInit /\ [][EmitNext]_vars

\* ------------------------------------------ PageSpec: paginate and collect

\* Calls of the fetcher one run of paginate may make, and items on a page.
MaxFetches == 3
MaxItems == 2

\* nextCursor is `string | null` (types/api.ts:215): null, the empty string
\* and two cursor tokens.
CursorA == JsString(<<"a">>)
CursorB == JsString(<<"b">>)
NextCursors == {JsNull, JsString(<<>>), CursorA, CursorB}

\* What the fetcher may be called with: the cursors and `undefined`.
FetchArgs == NextCursors \cup {Undefined}

\* The page a fetcher returns for argument c: n items, each known by the
\* call that returned it and its place on the page, and a nextCursor.
PageOf(c, n, next) ==
    [data |-> [i \in 1..n |-> [of |-> c, at |-> i]], nextCursor |-> next]

\* The cursors a fetcher answers with a page of its own choice; for null and
\* the empty string it answers with the empty last page.
PagedArgs == {Undefined, CursorA, CursorB}
Fetchers ==
    {[c \in FetchArgs |->
        IF c \in PagedArgs THEN PageOf(c, g[c].n, g[c].next) ELSE NoPages] :
     g \in [PagedArgs -> [n : 0..MaxItems, next : NextCursors]]}

\* A loop test that goes on for every cursor but `undefined`.  C31 tells it
\* apart from continues.
continues_whileDefined(c) == c # Undefined

\* The test of the do..while loop (pagination.ts:26).
continues(c) == truthy(c)

\* items.push(item) (pagination.ts:40).
push(arr, item) == Append(arr, item)

PageSpecInit ==
    /\ CoreIdle
    /\ TypeIdle
    /\ BackoffIdle
    /\ EmitIdle
    /\ StatusIdle
    /\ fetcher \in Fetchers
    /\ consumer \in {"collect", "forAwait"}
    /\ cursor = Undefined /\ fetched = <<>> /\ pageResp = NoPages
    /\ itemIdx = 0 /\ yielded = <<>> /\ items = <<>> /\ pagePc = "fetch"
    /\ collected = NotCollected

\* The rest of the program does not take part.
PageFrame ==
    UNCHANGED <<connVars, wire, userVars, sessVars, inputList, response, retryAttempt,
                jitter, delay, component, listeners, invoked, logged, escaped,
                statusEvents, fetcher, consumer>>

\* The call `fetcher(cursor)` (pagination.ts:19); the generator then awaits
\* the promise it returned.
PageFetch ==
    /\ pagePc = "fetch"
    /\ Len(fetched) < MaxFetches
    /\ fetched' = Append(fetched, cursor)
    /\ pagePc' = "await"
    /\ UNCHANGED <<cursor, pageResp, itemIdx, yielded, items, collected>>
    /\ PageFrame

\* The fetcher's promise resolves: `response` is assigned and the for..of
\* loop starts (pagination.ts:19-21).
PageResponse ==
    /\ pagePc = "await"
    /\ pageResp' = fetcher[cursor]
    /\ itemIdx' = 1
    /\ pagePc' = "items"
    /\ UNCHANGED <<cursor, fetched, yielded, items, collected>>
    /\ PageFrame

\* `yield item` (pagination.ts:21-23): the generator hands the item to its
\* consumer and is suspended.
PageYield ==
    /\ pagePc = "items"
    /\ itemIdx <= Len(pageResp.data)
    /\ yielded' = Append(yielded, pageResp.data[itemIdx])
    /\ pagePc' = "yield"
    /\ UNCHANGED <<cursor, fetched, pageResp, itemIdx, items, collected>>
    /\ PageFrame

\* The body of the consumer's loop, collect's `items.push(item)`
\* (pagination.ts:39-41), and its next request, which resumes the generator
\* after the yield.
PageConsume ==
    /\ pagePc = "yield"
    /\ items' = IF consumer = "collect"
                THEN push(items, yielded[Len(yielded)]) ELSE items
    /\ itemIdx' = itemIdx + 1
    /\ pagePc' = "items"
    /\ UNCHANGED <<cursor, fetched, pageResp, yielded, collected>>
    /\ PageFrame

\* The end of the for..of loop: the cursor is replaced and tested
\* (pagination.ts:25-26).
PageEnd ==
    /\ pagePc = "items"
    /\ itemIdx > Len(pageResp.data)
    /\ cursor' = nullish(pageResp.nextCursor, Undefined)
    /\ pagePc' = IF continues(cursor') THEN "fetch" ELSE "done"
    /\ UNCHANGED <<fetched, pageResp, itemIdx, yielded, items, collected>>
    /\ PageFrame

\* The generator has returned: collect returns its array (pagination.ts:42).
PageReturn ==
    /\ pagePc = "done"
    /\ consumer = "collect"
    /\ ~collected.returned
    /\ collected' = [returned |-> TRUE, value |-> items]
    /\ UNCHANGED <<cursor, fetched, pageResp, itemIdx, yielded, items, pagePc>>
    /\ PageFrame

PageNext ==
    \/ PageFetch
    \/ PageResponse
    \/ PageYield
    \/ PageConsume
    \/ PageEnd
    \/ PageReturn

PageSpec == PageSpecInit /\ [][PageNext]_vars

\* ------------------------------------------------ StatusSpec: setStatus

\* The statusChange events one run may emit.
MaxStatusEvents == 4

\* ConnectionStatus (part_004:6-10).
ConnectionStatuses == {"connecting", "connected", "disconnected", "error"}

StatusSpecInit ==
    /\ CoreIdle
    /\ LibInit

\* Some method or channel callback calls setStatus(s); every write of
\* _status and _connected is made there.
SetStatus ==
    \E s \in ConnectionStatuses :
        LET r == setStatus(Cur, s)
        IN  /\ Len(statusEvents) < MaxStatusEvents
            /\ status' = r.status
            /\ isConnected' = r.connected
            /\ statusEvents' = statusEvents \o r.emits
            /\ UNCHANGED <<ws, connectPromise, reconnectAttempts, reconnectTimeout,
                           manualClose, autoReconnect, chan, handlers, promise, nChan,
                           orphanTimers, wire, userVars, sessVars, inputList, response,
                           retryAttempt, jitter, delay, component, listeners, invoked, logged,
                           escaped, pageVars>>

StatusNext == SetStatus

StatusSpec == StatusSpecInit /\ [][StatusNext]_vars

\* ================================================================== claims

\* C1: every message_ack resolves, with the id it carries, the caller of the
\* oldest send that is still waiting for its acknowledgment, whatever other
\* events are interleaved.
C1_AckResolvesOldestPendingSend ==
    [][\A k \in ChanIds, id \in Ids :
          frameAck(k, id) =>
              LET waiting == {i \in DOMAIN pendingAcks :
                                 pc[pendingAcks[i].op] = "awaitAck"}
              IN  waiting # {} =>
                    LET first == CHOOSE i \in waiting : \A j \in waiting : i <= j
                        op == pendingAcks[first].op
                    IN  pc'[op] = "acked" /\ msgId'[op] = id]_vars

\* C2: a PendingQuestion entry exists exactly while its ask awaits the
\* response; its caller is settled at most once, by one of the four outcomes
\* (response, timeout, session invalidation, shutdown), and the entry and the
\* deadline timer are gone once it is settled.
C2_QuestionSettledOnce ==
    \A op \in Ops :
        /\ qSettles[op] <= 1
        /\ (op \in questionOps <=> pc[op] = "awaitResp")
        /\ (op \in questionOps =>
               qSettles[op] = 0 /\ outcome[op] = "none" /\ timer[op] = "armed")
        /\ (qSettles[op] = 1 =>
               /\ outcome[op] \in {"resolved", "Timeout", "SessionExpired", "Closed"}
               /\ pc[op] = "done"
               /\ (outcome[op] = "Timeout" <=> timer[op] = "fired")
               /\ (outcome[op] # "Timeout" => timer[op] = "cancelled"))

\* C2 witness: one ask was resolved by a response and another timed out.
C2_Witness ==
    \E a, b \in Ops :
        /\ outcome[a] = "resolved" /\ kind[a] = "ask" /\ qSettles[a] = 1
        /\ outcome[b] = "Timeout" /\ qSettles[b] = 1

\* C3: when the deadline of a question fires, its entry is removed and its
\* caller rejected with Timeout; a response-bearing message_updated for that
\* id arriving afterwards changes nothing in the Session.
C3_TimeoutThenLateResponse ==
    [][\A op \in Ops :
          /\ (timer[op] = "armed" /\ timer'[op] = "fired") =>
                /\ pendingQuestions'[msgId[op]] = 0
                /\ outcome'[op] = "Timeout"
                /\ qSettles'[op] = 1
          /\ timer[op] = "fired" =>
                \A k \in ChanIds, text \in Payloads, inputs \in InputTexts :
                    frameUpdated(k, msgId[op], "ask", TRUE, text, inputs)
                        => UNCHANGED sessVars]_vars

\* C3 witness: a question has timed out and a channel is open, so that a late
\* response can be delivered.
C3_Witness ==
    \E op \in Ops :
        /\ timer[op] = "fired" /\ outcome[op] = "Timeout" /\ msgId[op] # 0
        /\ \E k \in ChanIds : canReceive(k)

\* The postcondition shared by C4 and C5: both maps empty, no deadline timer
\* armed, and every caller that was waiting on an entry rejected with err by
\* exactly one settlement.
AllRejected(err) ==
    /\ pendingAcks' = <<>>
    /\ \A i \in Ids : pendingQuestions'[i] = 0
    /\ \A op \in Ops : timer'[op] # "armed"
    /\ \A op \in Ops :
          pc[op] \in {"awaitAck", "awaitResp"} =>
              /\ outcome'[op] = err
              /\ pc'[op] = "done"
              /\ ackSettles'[op] + qSettles'[op] = ackSettles[op] + qSettles[op] + 1

\* C4: a channel close carrying code 4001 rejects every waiting PendingAck
\* and PendingQuestion caller with SessionExpired exactly once, cancels every
\* deadline timer and leaves both maps empty.
C4_SessionExpiredRejectsAll ==
    [][\A k \in ChanIds :
          closeEvent(k, SESSION_EXPIRED_CLOSE_CODE) => AllRejected("SessionExpired")]_vars

\* C4 witness: a send awaiting its ack and a question awaiting its response
\* were both rejected with SessionExpired.
C4_Witness ==
    \E a, b \in Ops :
        /\ outcome[a] = "SessionExpired" /\ msgId[a] = 0 /\ ackSettles[a] = 1
        /\ outcome[b] = "SessionExpired" /\ msgId[b] # 0 /\ qSettles[b] = 1
        /\ timer[b] = "cancelled"

\* C5: Session.close() rejects every waiting PendingAck and PendingQuestion
\* caller exactly once with the closed-session failure, cancels every deadline
\* timer, empties both maps, and releases the channel: the Session drops its
\* connection, the connection is disconnected and holds no channel, and no
\* channel is left open with the connection's handlers on it.
C5_SessionCloseRejectsAll ==
    [][CallSessionClose =>
          /\ AllRejected("Closed")
          /\ ~sessConn'
          /\ sessConn =>
                /\ ws' = 0
                /\ status' = "disconnected"
                /\ ~isConnected'
                /\ \A k \in ChanIds :
                      ~(handlers'[k] /\ chan'[k] \in {"connecting", "open", "ready"})]_vars

\* C6: while a caller of connect() still awaits the handshake, or while the
\* status is connected, no connect() opens another channel, and the callers
\* awaiting the handshake all hold one promise (stated for runs in which
\* close() is never called).
C6_ConnectIdempotent ==
    [][~manualClose' =>
          /\ Cardinality({p \in held : promise[p] = "pending"}) <= 1
          /\ ((\E p \in held : promise[p] = "pending") \/ status = "connected")
                => nChan' = nChan]_vars

\* C7: connect() resolves, and the status becomes connected, only in the step
\* that delivers the handshake frame; the transport opening changes neither;
\* and a channel that closes after opening without a handshake rejects its
\* connect() promise (stated for runs in which close() is never called).
C7_ConnectCompletesOnHandshake ==
    [][\A k \in ChanIds :
          /\ (promise[k] = "pending" /\ promise'[k] = "resolved")
                => (chan[k] = "open" /\ chan'[k] = "ready")
          /\ (status # "connected" /\ status' = "connected")
                => \E j \in ChanIds : chan[j] = "open" /\ chan'[j] = "ready"
          /\ (chan[k] = "connecting" /\ chan'[k] = "open")
                => UNCHANGED <<status, isConnected, promise>>
          /\ (~manualClose' /\ chan[k] = "open" /\ chan'[k] = "closed"
                /\ promise[k] = "pending")
                => promise'[k] = "rejected"]_vars

\* C8: send() transmits exactly one frame when the status is connected, and
\* in every other status fails with NotConnected and transmits nothing.
C8_SendRequiresConnected ==
    [][(wire' # wire \/ sendOutcome' # sendOutcome) =>
          IF status = "connected"
          THEN wire' = wire + 1 /\ sendOutcome' = "sent"
          ELSE wire' = wire /\ sendOutcome' = "NotConnected"]_vars

\* C9: once close() has returned, a reconnect timer never opens a channel:
\* every channel opened afterwards is opened by an explicit connect().
C9_CloseSuppressesReconnect ==
    [][(manualClose /\ \E k \in ChanIds : chan[k] = "none" /\ chan'[k] = "connecting")
          => reconnectAttempts' = reconnectAttempts]_vars

\* What a caller must receive for each payload of the model: the decoded JSON
\* value, or the raw text when the payload is not JSON.
C10_Expected(text) ==
    IF text = P_OBJECT
    THEN [t |-> "object", a |-> <<>>,
          m |-> <<[k |-> <<"a">>,
                   v |-> [t |-> "boolean", a |-> <<"t", "r", "u", "e">>, m |-> <<>>]]>>]
    ELSE IF text = P_QUOTED
    THEN [t |-> "string", a |-> <<"y", "e", "s">>, m |-> <<>>]
    ELSE [t |-> "string", a |-> text, m |-> <<>>]

\* C10: a response-bearing update for a pending question resolves its caller,
\* with the decoded value when the payload is JSON and with the raw text when
\* it is not; it never rejects.
C10_ResponseDecodeNeverFails ==
    [][\A k \in ChanIds, id \in Ids, text \in Payloads, inputs \in {I_NULL, I_LIST} :
          (pendingQuestions[id] # 0
              /\ frameUpdated(k, id, "ask", TRUE, text, inputs))
          => /\ outcome'[pendingQuestions[id]] = "resolved"
             /\ value'[pendingQuestions[id]] = C10_Expected(text)]_vars

\* C10 witness: one ask was resolved with raw text (the payload was not JSON)
\* and another with a decoded object.
C10_Witness ==
    \E a, b \in Ops :
        /\ outcome[a] = "resolved" /\ value[a] = [t |-> "string", a |-> P_TEXT, m |-> <<>>]
        /\ outcome[b] = "resolved" /\ value[b].t = "object"

\* The per-kind mapping of the response shape, as a table.
C11_FieldType(d) ==
    CASE d.type = "confirm" -> "boolean"
      [] d.type = "select" /\ d.multiple = "true" -> "string[]"
      [] d.type = "select" /\ d.multiple # "true" -> "string"
      [] d.type = "text" -> "string"

\* C11: for every list of uniquely named descriptors the derived response
\* shape has exactly the declared field names, and each field has the type the
\* per-kind mapping gives its descriptor, whatever optional attributes the
\* descriptor carries.
C11_ResponseShape ==
    (response.inferred
        /\ \A i, j \in DOMAIN inputList : inputList[i].name = inputList[j].name => i = j)
    => /\ DOMAIN response.shape = {inputList[i].name : i \in DOMAIN inputList}
       /\ \A i \in DOMAIN inputList :
             response.shape[inputList[i].name] = {C11_FieldType(inputList[i])}

\* C11 witness: a shape was derived from two descriptors with different
\* names, a multiple select carrying optional attributes and a confirm.
C11_Witness ==
    /\ response.inferred
    /\ Len(inputList) = 2
    /\ inputList[1].name # inputList[2].name
    /\ inputList[1].type = "select" /\ inputList[1].multiple = "true"
    /\ inputList[1].extras
    /\ inputList[2].type = "confirm"
    /\ response.shape[inputList[1].name] = {"string[]"}

\* A decoded value has a type of the response shape.
C12_HasType(v, ty) ==
    CASE ty = "boolean" -> v.t = "boolean"
      [] ty = "string" -> v.t = "string"
      [] ty = "string[]" ->
            v.t = "array" /\ \A i \in DOMAIN v.m : v.m[i].v.t = "string"

\* A decoded value conforms to a response shape: it is an object with
\* exactly the fields of the shape, each of one of the field's types.
C12_Conforms(v, shape) ==
    /\ v.t = "object"
    /\ {v.m[i].k : i \in DOMAIN v.m} = {<<n>> : n \in DOMAIN shape}
    /\ \A i, j \in DOMAIN v.m : v.m[i].k = v.m[j].k => i = j
    /\ \A i \in DOMAIN v.m :
          \E n \in DOMAIN shape :
              v.m[i].k = <<n>> /\ \E ty \in shape[n] : C12_HasType(v.m[i].v, ty)

\* C12: the value delivered to an ask caller is the decoded payload when it
\* conforms to the shape derived from the call's descriptors, and the raw
\* response text in every other case (payload not JSON, or JSON that does not
\* conform).
C12_ConformingOrRawText ==
    [][\A k \in ChanIds, id \in Ids, text \in Payloads, ins \in {I_NULL, I_LIST} :
          (pendingQuestions[id] # 0
              /\ frameUpdated(k, id, "ask", TRUE, text, ins))
          => value'[pendingQuestions[id]] =
                IF JsonParse(text).ok
                   /\ C12_Conforms(JsonParse(text).val, ResponseFromInputs(askDescriptors))
                THEN JsonParse(text).val
                ELSE JsString(text)]_vars

\* C13: a channel close with a code other than 4001 leaves both pending maps
\* and every deadline timer unchanged and settles no caller waiting on an
\* entry; an entry whose caller is waiting leaves its map only when that
\* caller is answered (ack, response), times out, or is rejected by an
\* invalidation or by shutdown.
C13_TransientDisconnectKeepsEntries ==
    [][/\ \A k \in ChanIds, code \in CloseCodes \ {SESSION_EXPIRED_CLOSE_CODE} :
            closeEvent(k, code) =>
                /\ UNCHANGED <<pendingAcks, pendingQuestions, timer, ackSettles, qSettles>>
                /\ \A op \in Ops :
                      pc[op] \in {"awaitAck", "awaitResp"} =>
                          pc'[op] = pc[op] /\ outcome'[op] = "none"
       /\ \A id \in Ids :
            (pendingQuestions[id] # 0 /\ pendingQuestions'[id] = 0) =>
                outcome'[pendingQuestions[id]] \in
                    {"resolved", "Timeout", "SessionExpired", "Closed"}
       /\ \A op \in ackOps :
            (pc[op] = "awaitAck" /\ op \notin {pendingAcks'[i].op : i \in DOMAIN pendingAcks'}) =>
                \/ pc'[op] = "acked"
                \/ outcome'[op] \in {"SessionExpired", "Closed"}]_vars

\* C13 witness: the only channel has closed and the connection is
\* disconnected while a send still waits for its ack and a question for its
\* response, its deadline timer armed.
C13_Witness ==
    /\ nChan = 1 /\ chan[1] = "closed" /\ status = "disconnected"
    /\ \E a, b \in Ops :
          /\ pc[a] = "awaitAck" /\ a \in ackOps
          /\ pc[b] = "awaitResp" /\ b \in questionOps /\ timer[b] = "armed"


\* The number of reconnect timers that are scheduled and have not fired.
C14_PendingTimers == orphanTimers + (IF reconnectTimeout = "armed" THEN 1 ELSE 0)

\* C14: a channel close schedules one reconnect timer exactly when the
\* manual-close flag is not set, auto-reconnect is enabled and the attempt
\* counter is below the cap; every other channel close, the close of a channel
\* that close() detached included, leaves the timers as they were.
C14_RetryScheduledIff ==
    [][\A k \in ChanIds :
          /\ (onclose(k) /\ UNCHANGED <<wire, userVars, sessVars, libVars>>) =>
                IF ~manualClose /\ autoReconnect
                   /\ reconnectAttempts < maxReconnectAttempts
                THEN C14_PendingTimers' = C14_PendingTimers + 1
                     /\ reconnectTimeout' = "armed"
                ELSE UNCHANGED <<reconnectTimeout, orphanTimers>>
          /\ (detachedClose(k) /\ UNCHANGED <<wire, userVars, sessVars, libVars>>) =>
                UNCHANGED <<reconnectTimeout, orphanTimers>>]_vars

\* C14 witness: the channel of a first retry has closed in its turn and a
\* second retry is scheduled.
C14_Witness ==
    /\ ~manualClose /\ autoReconnect
    /\ reconnectAttempts = 1
    /\ reconnectTimeout = "armed"
    /\ status = "disconnected"
    /\ \E k \in ChanIds : k > 1 /\ chan[k] = "closed" /\ handlers[k]


\* C15: the attempt counter never exceeds maxReconnectAttempts, and once it
\* has reached the cap no step other than a caller's connect() opens a channel
\* or schedules a retry.
C15_AttemptsBounded ==
    [][/\ reconnectAttempts' <= maxReconnectAttempts
       /\ (reconnectAttempts >= maxReconnectAttempts /\ ~CallConnect) =>
             /\ nChan' = nChan
             /\ C14_PendingTimers' <= C14_PendingTimers]_vars


\* C16: every increment of the attempt counter coincides with the opening of
\* a new channel, the counter changes in no other way than by such an
\* increment or a reset, and a handshake resets it to zero.
C16_CountsActualRetries ==
    [][/\ reconnectAttempts' # reconnectAttempts =>
             \/ reconnectAttempts' = reconnectAttempts + 1 /\ nChan' = nChan + 1
             \/ reconnectAttempts' = 0
       /\ \A k \in ChanIds :
             (onmessageConnected(k) /\ UNCHANGED <<wire, userVars, sessVars, libVars>>)
                => reconnectAttempts' = 0]_vars


\* C17: a retry that fails leads to a further retry while attempts remain
\* below the cap.  When the reconnect timer fires and the channel cannot be
\* created, or when a channel closes before its handshake, and the close is
\* not manual, auto-reconnect is enabled and the counter is below the cap, a
\* reconnect timer is pending afterwards.
C17_FailedRetryIsRetried ==
    [][/\ (/\ reconnectAttempts' = reconnectAttempts + 1
           /\ nChan' = nChan + 1
           /\ promise'[nChan'] = "rejected"
           /\ ~manualClose /\ autoReconnect
           /\ reconnectAttempts' < maxReconnectAttempts)
             => C14_PendingTimers' >= 1
       /\ \A k \in ChanIds :
             (/\ onclose(k) /\ UNCHANGED <<wire, userVars, sessVars, libVars>>
              /\ chan[k] \in {"connecting", "open"}
              /\ ~manualClose /\ autoReconnect
              /\ reconnectAttempts < maxReconnectAttempts)
                => reconnectTimeout' = "armed"]_vars


\* C18: with base 1000 ms and cap 30000 ms the deterministic component
\* base * 2^attempts does not decrease over attempts 0..4: for an attempt
\* below 4 the component of the next attempt, and with the same jitter the
\* delay of the next attempt, are not smaller than those computed.  For
\* attempts 0..4 the scheduled delay lies between the component and the
\* component plus the jitter bound, and is the component when the jitter is
\* 0; and for every attempt the scheduled delay is at least the base and at
\* most the cap plus the jitter bound.
C18_BackoffBounded ==
    delay # NotComputed =>
        /\ lessEq(delay, FixedOf(MAX_DELAY + JITTER_BOUND))
        /\ lessEq(FixedOf(reconnectDelay), delay)
        /\ component = reconnectDelay * pow2(retryAttempt)
        /\ retryAttempt <= 4 =>
              /\ lessEq(FixedOf(component), delay)
              /\ lessEq(delay, FixedOf(component + JITTER_BOUND))
              /\ jitter = Fraction({}) => delay = FixedOf(component)
        /\ retryAttempt <= 3 =>
              /\ component <= backoff(retryAttempt + 1)
              /\ lessEq(delay, reconnectDelayFor(retryAttempt + 1, jitter))

\* C18 witness: the delay of attempt 4 has been computed with the largest
\* value of Math.random(): the sum rounds to the component plus the jitter
\* bound.
C18_Witness ==
    /\ retryAttempt = 4 /\ jitter = Fraction(1..53)
    /\ component = 16000 /\ delay = FixedOf(17000)


\* C19: the deadline of an ask covers both phases: an ask that has been
\* transmitted and waits for its acknowledgment or for its response has a
\* deadline timer running, whose expiry rejects the call with Timeout.
C19_DeadlineCoversBothPhases ==
    \A op \in Ops :
        (kind[op] = "ask" /\ pc[op] \in {"awaitAck", "awaitResp"}) => timer[op] = "armed"


\* C20: an emit calls every callback subscribed to the event name when the
\* event is emitted, each exactly once, in registration order; the exception
\* of a callback that throws is logged, the callbacks registered after it are
\* still called, and no exception leaves emit.
C20_EmitCallsAllInOrder ==
    [][Emit =>
          /\ invoked' = listeners
          /\ logged' = {listeners[i] : i \in {j \in DOMAIN listeners :
                                                   listeners[j].does = "throw"}}
          /\ ~escaped']_vars


\* C21: a frame whose text is not decodable JSON emits no event, leaves the
\* status, the channels, the reconnect counter, the timers and the outcome of
\* any pending connect() as they were, and the channel it arrived on goes on
\* receiving frames: wherever such a frame can be delivered, its handler
\* runs and has no step that does otherwise.
C21_MalformedFrameDropped ==
    \A k \in ChanIds, text \in MalformedTexts :
        canReceive(k) =>
            /\ frameEventOf[text] = "none"
            /\ ENABLED (onmessage(k, text)
                          /\ UNCHANGED <<wire, userVars, sessVars, libVars>>)
            /\ ~ENABLED (/\ onmessage(k, text)
                         /\ UNCHANGED <<wire, userVars, sessVars, libVars>>
                         /\ ~(/\ UNCHANGED <<status, isConnected, ws, chan, handlers,
                                              reconnectAttempts, reconnectTimeout,
                                              orphanTimers, connectPromise, promise>>
                              /\ canReceive(k)'))

\* C21 witness: a retry's channel is open, its handshake and the outcome of
\* its connect() are pending and the counter is not zero: the state in which,
\* and after which, a malformed frame is taken from that channel.
C21_Witness ==
    \E k \in ChanIds :
        /\ canReceive(k) /\ chan[k] = "open"
        /\ connectPromise = k /\ promise[k] = "pending"
        /\ status = "connecting"
        /\ reconnectAttempts = 1
        /\ MalformedTexts # {}


\* C22: an ask on a session without recipients rejects with the validation
\* error and does nothing else: no connection is created or opened, no
\* sequence number is taken, nothing is transmitted, no entry is added to a
\* pending map and no timer is set.
C22_AskWithoutRecipientsRejects ==
    [][\A throws \in BOOLEAN :
          (call("ask", throws) /\ ~hasRecipients) =>
              /\ outcome'[nStarted'] = "Validation"
              /\ pc'[nStarted'] = "done"
              /\ UNCHANGED <<connVars, wire, sessConn, ackCounter, pendingAcks,
                             pendingQuestions, timer, microtasks>>]_vars

\* C22 witness: the first call of a session without recipients was an ask; it
\* is rejected and the session has no connection.
C22_Witness ==
    /\ ~hasRecipients
    /\ kind[1] = "ask" /\ pc[1] = "done" /\ outcome[1] = "Validation"
    /\ ~sessConn /\ nChan = 0 /\ wire = 0 /\ ackCounter = 0


\* C23: a connection never has two active channels: at most one channel is
\* opening (connecting, or open and waiting for its handshake) or open.
C23_AtMostOneActiveChannel ==
    Cardinality({k \in ChanIds : chan[k] \in {"connecting", "open", "ready"}}) <= 1


\* The permutations of the positions 1..n.
C24_Perms(n) == {p \in [1..n -> 1..n] : \A i, j \in 1..n : p[i] = p[j] => i = j}

\* C24: the derived shape does not depend on the order of the descriptors:
\* every permutation of a list of uniquely named descriptors derives the
\* shape the list itself derives.
C24_ShapeIgnoresOrder ==
    (response.inferred
        /\ \A i, j \in DOMAIN inputList : inputList[i].name = inputList[j].name => i = j)
    => \A p \in C24_Perms(Len(inputList)) :
          ResponseFromInputs([i \in DOMAIN inputList |-> inputList[p[i]]])
              = response.shape

\* C24 witness: a shape was derived from two descriptors of different kinds
\* and different names.
C24_Witness ==
    /\ response.inferred
    /\ Len(inputList) = 2
    /\ inputList[1].name = "a" /\ inputList[1].type = "confirm"
    /\ inputList[2].name = "b" /\ inputList[2].type = "select"
    /\ inputList[2].multiple = "true"
    /\ response.shape = [n \in {"a", "b"} |-> IF n = "a" THEN {"boolean"} ELSE {"string[]"}]


\* C25: close() detaches the handlers of the channel it holds before closing
\* it and ends with status disconnected, no channel held and no reconnect
\* timer pending; the close event of the detached channel runs no handler: it
\* changes no status, settles no connect() and schedules no reconnect.
C25_CloseDetachesAndEndsIdle ==
    [][/\ CallClose =>
             /\ ws # 0 => ~handlers'[ws]
             /\ status' = "disconnected" /\ ~isConnected'
             /\ ws' = 0
             /\ C14_PendingTimers' = 0
       /\ \A k \in ChanIds :
             (detachedClose(k) /\ UNCHANGED <<wire, userVars, sessVars, libVars>>) =>
                 UNCHANGED <<status, isConnected, ws, connectPromise, promise,
                             reconnectAttempts, reconnectTimeout, orphanTimers>>]_vars


\* C26: correlation has two phases.  A PendingQuestion keyed by a permanent id
\* belongs to an ask whose PendingAck an ack carrying that id has resolved;
\* and wherever a response-bearing update can arrive for an id that has no
\* PendingQuestion, the id of an ask still waiting for its ack included, the
\* update settles no caller and changes neither pending map.
C26_TwoPhaseCorrelation ==
    /\ \A id \in Ids :
          pendingQuestions[id] # 0 =>
              LET op == pendingQuestions[id]
              IN  /\ kind[op] = "ask"
                  /\ msgId[op] = id
                  /\ id \in usedIds
                  /\ ackSettles[op] >= 1
                  /\ \A i \in DOMAIN pendingAcks : pendingAcks[i].op # op
    /\ \A k \in ChanIds, id \in Ids, text \in {P_OBJECT, P_TEXT} :
          (pendingQuestions[id] = 0 /\ canReceive(k) /\ microtasks = <<>>) =>
              /\ ENABLED frameUpdated(k, id, "ask", TRUE, text, I_LIST)
              /\ ~ENABLED (/\ frameUpdated(k, id, "ask", TRUE, text, I_LIST)
                           /\ ~UNCHANGED <<pendingAcks, pendingQuestions, pc, outcome,
                                           value, timer, qSettles, ackSettles>>)

\* C26 witness: an ask has been transmitted and waits for its ack, no id is
\* assigned yet and no PendingQuestion exists, while the channel can deliver
\* an update.
C26_Witness ==
    /\ kind[1] = "ask" /\ pc[1] = "awaitAck"
    /\ usedIds = {}
    /\ \A id \in Ids : pendingQuestions[id] = 0
    /\ microtasks = <<>>
    /\ \E k \in ChanIds : canReceive(k) /\ chan[k] = "ready"


\* C27: the deadline timers that are armed correspond one to one to the
\* entries of the PendingQuestion map, and a deadline timer fires only for an
\* entry that is still in the map with its caller unsettled: every terminal
\* event removes the entry and cancels the timer in one step.
C27_TimersMatchEntries ==
    /\ [](/\ \A op \in Ops :
                timer[op] = "armed" <=> \E id \in Ids : pendingQuestions[id] = op
          /\ \A id \in Ids :
                pendingQuestions[id] # 0 => msgId[pendingQuestions[id]] = id)
    /\ [][\A op \in Ops :
            /\ (timer[op] = "armed" /\ timer'[op] = "fired") =>
                  /\ pendingQuestions[msgId[op]] = op
                  /\ outcome[op] = "none" /\ qSettles[op] = 0
            /\ (timer[op] = "armed" /\ timer'[op] # "armed") =>
                  /\ pendingQuestions'[msgId[op]] = 0
                  /\ qSettles'[op] = 1
            /\ timer[op] \in {"fired", "cancelled"} => timer'[op] = timer[op]]_vars

\* C27 witness: of two questions that were pending at once, one has been
\* answered and its timer cancelled, the other is still pending with its
\* timer armed.
C27_Witness ==
    \E a, b \in Ops :
        /\ a # b
        /\ outcome[a] = "resolved" /\ timer[a] = "cancelled" /\ msgId[a] # 0
        /\ pendingQuestions[msgId[a]] = 0
        /\ pc[b] = "awaitResp" /\ timer[b] = "armed" /\ pendingQuestions[msgId[b]] = b


\* C28: reconnection never extends the deadline of a question.  The deadline
\* timer is created once, with the PendingQuestion entry; no close other than
\* an invalidation, no reconnect timer, no transport opening, error or
\* handshake touches it; it ends only by settling its caller; it can elapse
\* in every state of the connection, and when it does the caller is rejected
\* with Timeout.
C28_ReconnectKeepsDeadline ==
    /\ [](\A op \in Ops :
            (timer[op] = "armed" /\ microtasks = <<>>) =>
                ENABLED (/\ deadline(op)
                         /\ outcome'[op] = "Timeout"
                         /\ UNCHANGED <<connVars, wire, userVars, libVars, sessConn,
                                        hasRecipients, ackCounter, pendingAcks,
                                        nStarted, kind, awaiting, connection, msgId, value,
                                        ackSettles, microtasks, usedIds>>))
    /\ [][/\ \A op \in Ops :
               /\ (timer[op] # "armed" /\ timer'[op] = "armed") =>
                     /\ timer[op] = "none"
                     /\ pendingQuestions[msgId[op]] = 0
                     /\ pendingQuestions'[msgId[op]] = op
               /\ (timer[op] = "armed" /\ timer'[op] # "armed") =>
                     outcome'[op] \in {"resolved", "Timeout", "SessionExpired", "Closed"}
               /\ (timer[op] = "armed" /\ timer'[op] = "fired") =>
                     outcome'[op] = "Timeout"
          /\ (\E k \in ChanIds, code \in CloseCodes \ {SESSION_EXPIRED_CLOSE_CODE} :
                  closeEvent(k, code)) => timer' = timer
          /\ (EvReconnectTimer \/ FrameConnected \/ EvOpen \/ EvError \/ EvPeerClosing)
                  => timer' = timer]_vars

\* C28 witness: a question sent on the first channel is still pending with
\* its deadline timer armed after that channel has closed and the connection
\* has completed the handshake on the next one.
C28_Witness ==
    \E op \in Ops :
        /\ pc[op] = "awaitResp" /\ timer[op] = "armed"
        /\ chan[1] = "closed"
        /\ chan[2] = "ready" /\ ws = 2 /\ status = "connected"


\* C29: an update of an ask that carries a response, for id X, settles the
\* PendingQuestion keyed X and nothing else: the caller of that entry
\* resolves, its timer is cancelled and the entry removed, while every other
\* entry, every other caller and timer, and every PendingAck stay as they
\* were; with no entry keyed X the Session does not change at all.  The
\* updates are the frames of an answered ask whose inputs text parses.
C29_AnsweredAsks ==
    {f \in UpdatedFrames :
        f.mtype = "ask" /\ f.hasResponse /\ ~transformThrowsOn[f.inputs]}

C29_UpdateSettlesOnlyItsEntry ==
    [][\A k \in ChanIds :
         \* the steps that change the Session while channel k delivers a frame
         (microtasks = <<>> /\ sessVars' # sessVars /\ onmessageOther(k)) =>
         \A id \in Ids, f \in C29_AnsweredAsks :
            frameUpdated(k, id, f.mtype, f.hasResponse, f.text, f.inputs) =>
               LET op == pendingQuestions[id]
               IN  /\ pendingAcks' = pendingAcks
                   /\ ackSettles' = ackSettles
                   /\ \A j \in Ids \ {id} : pendingQuestions'[j] = pendingQuestions[j]
                   /\ \A o \in Ops \ {op} :
                         /\ timer'[o] = timer[o] /\ pc'[o] = pc[o]
                         /\ outcome'[o] = outcome[o] /\ value'[o] = value[o]
                         /\ qSettles'[o] = qSettles[o]
                   /\ op # 0 =>
                         /\ pendingQuestions'[id] = 0
                         /\ timer[op] = "armed" /\ timer'[op] = "cancelled"
                         /\ outcome[op] = "none" /\ outcome'[op] = "resolved"
                         /\ pc'[op] = "done"
                   /\ op = 0 => UNCHANGED sessVars]_vars

\* C29 witness: of two questions pending at once the later one has been
\* answered, and the earlier one still waits with its deadline timer armed.
C29_Witness ==
    /\ kind[1] = "ask" /\ pc[1] = "awaitResp" /\ timer[1] = "armed"
    /\ pendingQuestions[msgId[1]] = 1
    /\ kind[2] = "ask" /\ pc[2] = "done" /\ outcome[2] = "resolved"
    /\ timer[2] = "cancelled" /\ pendingQuestions[msgId[2]] = 0


\* C30: a log ends at the resolution of its ack.  A log never holds a
\* PendingQuestion or a deadline timer; the ack that moves it on is the one
\* that resolves its own PendingAck, at the head of the queue; its
\* continuation is then queued, ahead of every channel event and timer, and
\* the call leaves that state only by resolving, when the continuation runs;
\* and a message_updated frame for the id of a finished log changes nothing
\* in the Session.
C30_LogEndsAtAck ==
    /\ [](\A op \in Ops :
            kind[op] = "log" =>
                /\ timer[op] = "none" /\ qSettles[op] = 0
                /\ op \notin questionOps
                /\ pc[op] # "awaitResp"
                /\ pc[op] = "acked" =>
                      /\ outcome[op] = "none"
                      /\ \E i \in DOMAIN microtasks : microtasks[i] = op)
    /\ [][/\ \A op \in Ops :
               /\ (kind[op] = "log" /\ pc[op] = "awaitAck" /\ pc'[op] = "acked") =>
                     /\ pendingAcks # <<>> /\ pendingAcks[1].op = op
                     /\ pendingAcks' = Tail(pendingAcks)
                     /\ ackSettles'[op] = ackSettles[op] + 1
               /\ (/\ kind[op] = "log" /\ pc[op] = "acked"
                   /\ pc'[op] # "acked" \/ outcome'[op] # "none") =>
                     /\ Head(microtasks) = op
                     /\ pc'[op] = "done" /\ outcome'[op] = "resolved"
          /\ \A id \in Ids :
               (/\ microtasks = <<>> /\ sessVars' # sessVars
                /\ \E op \in Ops : kind[op] = "log" /\ pc[op] = "done" /\ msgId[op] = id) =>
                  \A k \in ChanIds, f \in UpdatedFrames :
                     frameUpdated(k, id, f.mtype, f.hasResponse, f.text, f.inputs)
                        => UNCHANGED sessVars]_vars

\* C30 witness: a log has resolved with the id its ack carried, while a
\* question is pending and the channel can deliver an update for either id.
C30_Witness ==
    \E op \in Ops :
        /\ kind[op] = "log" /\ outcome[op] = "resolved" /\ msgId[op] # 0
        /\ ackSettles[op] = 1
        /\ questionOps # {}
        /\ microtasks = <<>>
        /\ \E k \in ChanIds : canReceive(k)


\* The items of the first n pages fetched, in page order and item order.
RECURSIVE C31_ItemsOf(_)
C31_ItemsOf(n) ==
    IF n = 0 THEN <<>> ELSE C31_ItemsOf(n - 1) \o fetcher[fetched[n]].data

\* What the generator has to have yielded by now: every item of the pages
\* that have arrived before the current one, and the items of the current
\* page up to the one it is at.
C31_Expected ==
    IF pagePc = "items"
    THEN C31_ItemsOf(Len(fetched) - 1) \o SubSeq(pageResp.data, 1, itemIdx - 1)
    ELSE IF pagePc = "yield"
    THEN C31_ItemsOf(Len(fetched) - 1) \o SubSeq(pageResp.data, 1, itemIdx)
    ELSE IF pagePc = "await"
    THEN C31_ItemsOf(Len(fetched) - 1)
    ELSE C31_ItemsOf(Len(fetched))

\* The order of the fetches and of the items, and what collect returns: the
\* part of C31 that does not depend on which cursors end the iteration.
\* collect holds the items yielded so far, but for the one the generator has
\* just yielded and collect has not pushed yet; it returns only when the
\* generator is done, and returns every item yielded.
C31_Order ==
    /\ yielded = C31_Expected
    /\ fetched # <<>> => fetched[1] = Undefined
    /\ \A i \in 2..Len(fetched) : fetched[i] = fetcher[fetched[i - 1]].nextCursor
    /\ consumer = "collect" =>
          items = IF pagePc = "yield"
                  THEN SubSeq(yielded, 1, Len(yielded) - 1) ELSE yielded
    /\ consumer # "collect" => items = <<>> /\ ~collected.returned
    /\ collected.returned =>
          /\ pagePc = "done"
          /\ collected.value = yielded
          /\ collected.value = C31_ItemsOf(Len(fetched))

\* C31 as stated: paginate yields every item of every fetched page in page
\* order and item order, fetches first with no cursor and then with the
\* previous nextCursor, fetches no page after one whose nextCursor is null and
\* stops only after such a page; collect returns that sequence.
C31_PaginateStopsAtNull ==
    /\ C31_Order
    /\ \A i \in 1..(Len(fetched) - 1) : fetcher[fetched[i]].nextCursor # JsNull
    /\ pagePc = "done" => fetcher[fetched[Len(fetched)]].nextCursor = JsNull

\* C31 amended: the same, with the iteration ending after the first page
\* whose nextCursor is null or the empty string.
C31_PaginateStopsAtNoCursor ==
    /\ C31_Order
    /\ \A i \in 1..(Len(fetched) - 1) : truthy(fetcher[fetched[i]].nextCursor)
    /\ pagePc = "done" => ~truthy(fetcher[fetched[Len(fetched)]].nextCursor)
    /\ (pagePc = "fetch" /\ fetched # <<>>) =>
            truthy(fetcher[fetched[Len(fetched)]].nextCursor)

\* C31 witness: collect has returned the items of three pages, the last of
\* which carried the empty string as nextCursor.
C31_Witness ==
    /\ collected.returned
    /\ Len(fetched) = 3
    /\ Len(collected.value) >= 3
    /\ fetcher[fetched[3]].nextCursor = JsString(<<>>)


\* C32: a send that fails with NotConnected leaves the correlation state as
\* it was: the step that rejects the call changes neither map, so no
\* PendingAck entry of a call rejected with NotConnected exists, and an ack
\* never finds such an entry at the head of the queue.
C32_FailedSendLeavesNoEntry ==
    /\ [](\A i \in DOMAIN pendingAcks : outcome[pendingAcks[i].op] # "NotConnected")
    /\ [][\A op \in Ops :
            (outcome[op] = "none" /\ outcome'[op] = "NotConnected") =>
                UNCHANGED <<pendingAcks, pendingQuestions>>]_vars


\* C33: a failed connect() does not poison the connection.  The connection
\* never retains the promise of an attempt that has rejected, and a connect()
\* called while not connected and with no attempt in progress opens a new
\* channel and returns the promise of that attempt.
C33_FailedConnectNotRetained ==
    /\ [](connectPromise # 0 => promise[connectPromise] # "rejected")
    /\ [][(/\ CallConnect
           /\ ~isConnected
           /\ connectPromise # 0 => promise[connectPromise] = "rejected") =>
              /\ nChan' = nChan + 1
              /\ connectPromise' = nChan'
              /\ nChan' \in held']_vars


\* C34: explicit shutdown settles the calls suspended on the handshake.
\* After session.close() every log or ask that was waiting for connect() is
\* either settled, or waits on a promise that a callback of its channel can
\* still resolve or reject.
C34_ShutdownSettlesConnectCallers ==
    [][CallSessionClose =>
          \A op \in Ops :
              (pc[op] = "connecting" /\ pc'[op] = "connecting") =>
                  /\ promise'[awaiting'[op]] = "pending"
                  /\ handlers'[awaiting'[op]]
                  /\ chan'[awaiting'[op]] \in {"connecting", "open", "closing"}]_vars


\* C35: while the status is `connected` the connection holds the open channel
\* on which the handshake was received, so send() passes its guard; and a
\* close or error callback of a channel that is not the current one leaves
\* the current channel in place.
C35_ConnectedHoldsItsChannel ==
    /\ [](status = "connected" => ws # 0 /\ chan[ws] = "ready" /\ canTransmit)
    /\ [][\A k \in ChanIds :
            ((onclose(k) \/ onerror(k)) /\ ws # 0 /\ ws # k) => ws' = ws]_vars


\* C36: at most one reconnect timer is pending and the connection refers to
\* it: no pending timer exists that this.reconnectTimeout does not hold, and
\* after close() no scheduled retry is left.
C36_OneReferencedTimer ==
    /\ [](orphanTimers = 0)
    /\ [][CallClose => (orphanTimers' = 0 /\ reconnectTimeout' # "armed")]_vars


\* C37: a message_ack event removes at most one PendingAck, the oldest, and
\* settles at most one caller; one that arrives while no PendingAck is
\* outstanding leaves the Session as it was, so nothing of it is kept for a
\* send issued later: a send that waits for its ack always has its own entry
\* in the queue.
C37_AckSettlesAtMostOne ==
    /\ [](\A op \in Ops : pc[op] = "awaitAck" => op \in ackOps)
    /\ [][usedIds' # usedIds =>
          \A k \in ChanIds, id \in Ids :
             frameAck(k, id) =>
                /\ pendingAcks' = pendingAcks \/ pendingAcks' = Tail(pendingAcks)
                /\ Cardinality({op \in Ops : ackSettles'[op] # ackSettles[op]}) <= 1
                /\ Cardinality({op \in Ops : pc'[op] # pc[op]}) <= 1
                /\ \A op \in Ops :
                      pc'[op] # pc[op] =>
                         /\ pendingAcks # <<>> /\ pendingAcks[1].op = op
                         /\ pc[op] = "awaitAck" /\ pc'[op] = "acked"
                /\ pendingAcks = <<>> =>
                      UNCHANGED <<sessConn, hasRecipients, ackCounter, pendingAcks,
                                  pendingQuestions, nStarted, kind, pc, awaiting, connection, msgId,
                                  timer, outcome, value, ackSettles, qSettles,
                                  microtasks>>]_vars

\* C37 witness: an ack has arrived while no PendingAck was outstanding and
\* settled nobody; a send transmitted after it waits for its own ack.
C37_Witness ==
    /\ usedIds # {}
    /\ \A op \in Ops : ackSettles[op] = 0
    /\ Len(pendingAcks) = 1
    /\ pc[pendingAcks[1].op] = "awaitAck"
    /\ wire = 1


\* C38: a channel close that carries the invalidation code 4001 triggers no
\* automatic reconnection: the step rejects the pending entries and schedules
\* no retry timer, so no timer exists that would open a channel for the
\* invalidated session.
C38_InvalidationSchedulesNoRetry ==
    [][\A k \in ChanIds :
          closeEvent(k, SESSION_EXPIRED_CLOSE_CODE) =>
              /\ reconnectTimeout' = reconnectTimeout
              /\ orphanTimers' = orphanTimers
              /\ reconnectTimeout' # "armed"]_vars


\* C39: isConnected is true exactly when the status is `connected`; a
\* statusChange event is emitted exactly when the status value changes and
\* carries the new status, so no two consecutive events carry the same
\* status and the last event carries the current one.
C39_StatusChangeOnChangeOnly ==
    /\ [](/\ isConnected <=> status = "connected"
          /\ \A i \in 1..(Len(statusEvents) - 1) : statusEvents[i] # statusEvents[i + 1]
          /\ statusEvents # <<>> => statusEvents[Len(statusEvents)] = status
          /\ statusEvents = <<>> => status = "disconnected")
    /\ [][IF status' # status
          THEN statusEvents' = Append(statusEvents, status')
          ELSE statusEvents' = statusEvents]_vars

\* C39 witness: the status has gone to connected and away from it again, each
\* change announced by one event.
C39_Witness ==
    /\ statusEvents = <<"connecting", "connected", "error", "disconnected">>
    /\ status = "disconnected" /\ ~isConnected

====
